---- MODULE Spec2Model ----
(***************************************************************************)
(* Account Intelligence Pipeline of sovereign-prep: the Merger, the        *)
(* Account Analyzer, the Participant Profiler, the Goal Generator, the     *)
(* Talking-Point Generator and the Assembler that sequences them.          *)
(*                                                                         *)
(* Strings whose characters the code inspects (addresses, titles) are      *)
(* sequences of one-character strings, so that toLowerCase, the domain     *)
(* regular expression, includes and slice are computed, not assumed.       *)
(* Instants are integers counted in ticks of half a day.                   *)
(***************************************************************************)
EXTENDS Integers, Sequences, FiniteSets, TLC

VARIABLES sources, result, previous, runs, data, options, analysis, profiles, goals, talkingPoints,
          competitiveIntel, stage, dossier, validation, origin,
          itemList, marked, clock,
          state, failures, lastFailureTime, failureThreshold, resetTimeMs, inFlight, outcomes,
          candidate, enriched,
          retryConfig, attempt, invocations, currentDelay, retried, lastError, retryPc,
          retryResult,
          jobs, isRunning, stats, runOnInit, executions

\* The variables of the pipeline run, of the stages taken one at a time, and
\* of the dossier handed to the validator
pipelineVars == <<sources, result, previous, runs>>
stageVars == <<data, options, analysis, profiles, goals, talkingPoints, competitiveIntel, stage>>
dossierVars == <<dossier, validation, origin>>

\* The list handed to the overdue pass with the lists the passes returned,
\* the clock that new Date() and Date.now() read, and the circuit breaker
overdueVars == <<itemList, marked>>
breakerVars == <<state, failures, lastFailureTime, failureThreshold, resetTimeMs, inFlight, outcomes>>

\* The participant handed to enrichParticipant with the profile returned, a
\* call of executeWithRetry, and the Scheduler with the executions of its
\* jobs
profileVars == <<candidate, enriched>>
retryVars == <<retryConfig, attempt, invocations, currentDelay, retried, lastError, retryPc,
               retryResult>>
schedulerVars == <<jobs, isRunning, stats, runOnInit, executions>>
utilityVars == <<profileVars, retryVars, schedulerVars>>

vars == <<pipelineVars, stageVars, dossierVars, overdueVars, clock, breakerVars, utilityVars>>

(***************************************************************************)
(* Bounds of the model.                                                    *)
(***************************************************************************)
MaxTranscripts == 2
MaxMessages == 3
MaxCalendarEvents == 1
MaxAddresses == 2
MaxActionItems == 1
MaxParticipants == 5
MaxProfiled == 3
MaxEvents == 2
MaxOverdue == 4
MaxRandom == 2
MaxRuns == 2

(***************************************************************************)
(* Characters and strings.                                                 *)
(***************************************************************************)
UpperChars == <<"A", "B", "C", "D", "E", "F", "G", "H", "I", "J", "K", "L", "M",
                "N", "O", "P", "Q", "R", "S", "T", "U", "V", "W", "X", "Y", "Z">>

LowerChars == <<"a", "b", "c", "d", "e", "f", "g", "h", "i", "j", "k", "l", "m",
                "n", "o", "p", "q", "r", "s", "t", "u", "v", "w", "x", "y", "z">>

\* Array.prototype.map
SeqMap(s, Op(_)) ==
    LET F[i \in 0..Len(s)] == IF i = 0 THEN <<>> ELSE Append(F[i - 1], Op(s[i]))
    IN  F[Len(s)]

LowerOf == [c \in {UpperChars[i] : i \in DOMAIN UpperChars} |->
               LowerChars[CHOOSE i \in DOMAIN UpperChars : UpperChars[i] = c]]

ToLowerChar(c) == IF c \in DOMAIN LowerOf THEN LowerOf[c] ELSE c

\* String.prototype.toLowerCase
toLowerCase(s) == [i \in DOMAIN s |-> ToLowerChar(s[i])]

\* String.prototype.includes
includes(s, k) ==
    \E i \in 1..(Len(s) - Len(k) + 1) : \A j \in DOMAIN k : s[i + j - 1] = k[j]

\* String.prototype.slice(0, n)
slice(s, n) == IF Len(s) <= n THEN s ELSE SubSeq(s, 1, n)

\* Array.prototype.filter
SeqFilter(s, Test(_)) ==
    LET F[i \in 0..Len(s)] ==
            IF i = 0 THEN <<>>
            ELSE IF Test(s[i]) THEN Append(F[i - 1], s[i]) ELSE F[i - 1]
    IN  F[Len(s)]

Range(s) == {s[i] : i \in DOMAIN s}

SeqsUpTo(S, n) == UNION {[1..k -> S] : k \in 0..n}

\* Array.prototype.sort with a comparator: Before(a, b) iff the comparator
\* is negative for (a, b). The sort is stable: each element, taken in the
\* order of the array, goes after every element already placed that it does
\* not go before.
StableSort(s, Before(_, _)) ==
    LET Insert(sorted, x) ==
            LET k == Cardinality({j \in DOMAIN sorted : ~Before(x, sorted[j])})
            IN  SubSeq(sorted, 1, k) \o <<x>> \o SubSeq(sorted, k + 1, Len(sorted))
        F[i \in 0..Len(s)] == IF i = 0 THEN <<>> ELSE Insert(F[i - 1], s[i])
    IN  F[Len(s)]

(***************************************************************************)
(* Addresses.                                                              *)
(***************************************************************************)
RUNLAYER_COM == <<"r", "u", "n", "l", "a", "y", "e", "r", ".", "c", "o", "m">>
ANYSOURCEHQ_COM == <<"a", "n", "y", "s", "o", "u", "r", "c", "e", "h", "q", ".", "c", "o", "m">>
TOYOTA_COM == <<"t", "o", "y", "o", "t", "a", ".", "c", "o", "m">>

INTERNAL_DOMAINS == <<RUNLAYER_COM, ANYSOURCEHQ_COM>>

UserEmail == <<"u", "s", "e", "r", "@", "t", "o", "y", "o", "t", "a", ".", "c", "o", "m">>
UserEmailCaps == <<"U", "s", "e", "r", "@", "T", "o", "y", "o", "t", "a", ".", "c", "o", "m">>
AndyEmail == <<"a", "n", "d", "y", "@", "r", "u", "n", "l", "a", "y", "e", "r", ".", "c", "o", "m">>
AndyEmailCaps == <<"A", "n", "d", "y", "@", "R", "u", "n", "L", "a", "y", "e", "r", ".", "C", "O", "M">>
AndyName == <<"A", "n", "d", "y">>

\* The value of a match that failed (null).
NoDomain == <<>>

\* email.match(/@([^@]+)$/): the text after the last "@", when there is one
\* and it is not empty.
extractDomain(email) ==
    LET ats == {i \in DOMAIN email : email[i] = "@"}
    IN  IF ats = {} THEN NoDomain
        ELSE LET last == CHOOSE i \in ats : \A j \in ats : j <= i
             IN  IF last = Len(email) THEN NoDomain
                 ELSE SubSeq(email, last + 1, Len(email))

isInternalEmailStrict(email) ==
    LET domain == extractDomain(email)
    IN  IF domain = NoDomain THEN FALSE
        ELSE \E i \in DOMAIN INTERNAL_DOMAINS : domain = INTERNAL_DOMAINS[i]

isInternalEmail(email) ==
    LET domain == extractDomain(email)
    IN  IF domain = NoDomain THEN FALSE
        ELSE \E i \in DOMAIN INTERNAL_DOMAINS :
                toLowerCase(domain) = toLowerCase(INTERNAL_DOMAINS[i])

(***************************************************************************)
(* Time.                                                                   *)
(***************************************************************************)
TicksPerDay == 2
Now == 200

Abs(x) == IF x < 0 THEN -x ELSE x

CeilDiv(a, b) == IF a % b = 0 THEN a \div b ELSE (a \div b) + 1

daysBetween(date1, date2) == CeilDiv(Abs(date2 - date1), TicksPerDay)

daysAgo(date) == daysBetween(date, Now)

\* A timestamp string: the instant it denotes, or text that no Date parses.
Stamp(t) == [valid |-> TRUE, t |-> t]
GarbageStamp == [valid |-> FALSE, t |-> 0]

\* new Date(string): the instant, or the Invalid Date, which is an object
\* (truthy) that is neither before nor after any date
InvalidDate == -1
newDate(stamp) == IF stamp.valid THEN stamp.t ELSE InvalidDate

\* new Date(message.timestamp).toISOString().split('T')[0]: the calendar day
dateKey(stamp) == stamp.t \div TicksPerDay

\* new Date(dateKey): midnight of that day
dateOfKey(key) == key * TicksPerDay

(***************************************************************************)
(* An optional value (undefined or a value) is a sequence of length 0 or 1.*)
(***************************************************************************)
None == <<>>
Some(x) == <<x>>

\* Number to decimal string (template literals `${n}`), n >= 0
RECURSIVE NumStr(_)
NumStr(n) ==
    LET digits == <<"0", "1", "2", "3", "4", "5", "6", "7", "8", "9">>
    IN  IF n < 10 THEN <<digits[n + 1]>>
        ELSE NumStr(n \div 10) \o <<digits[(n % 10) + 1]>>

(***************************************************************************)
(* Merger (merger.ts).                                                     *)
(***************************************************************************)
EmptyMergedData(opts) ==
    [ threw |-> FALSE,
      account |-> [ name |-> opts.accountName,
                    domain |-> opts.accountDomain,
                    dealStage |-> None,
                    lastContactDate |-> None,
                    contacts |-> <<>>,
                    timeline |-> <<>>,
                    openActionItems |-> <<>> ],
      participants |-> <<>>,
      timeline |-> <<>>,
      actionItems |-> <<>> ]

\* Map.prototype.get on the participant registry: the position of the entry
\* whose key is exactly this string, 0 when there is none.
RegistryIndex(participants, key) ==
    IF \E i \in DOMAIN participants : participants[i].key = key
    THEN CHOOSE i \in DOMAIN participants : participants[i].key = key
    ELSE 0

\* Map.prototype.set: replaces the entry of the key, or appends a new one.
RegistrySet(participants, key, entry) ==
    LET idx == RegistryIndex(participants, key)
        keyed == [entry EXCEPT !.key = key]
    IN  IF idx = 0 THEN Append(participants, keyed)
        ELSE [participants EXCEPT ![idx] = keyed]

NewParticipant(email, name) ==
    [ key |-> email,
      email |-> email,
      name |-> name,
      company |-> extractDomain(email),
      title |-> <<>>,
      role |-> "unknown",
      influence |-> "medium",
      previousInteractions |-> <<>>,
      lastInteractionDate |-> None,
      totalInteractions |-> 0,
      whatTheyCareAbout |-> <<>> ]

\* suffix stands for Math.random().toString(36).slice(2, 8)
convertFirefliesActionItem(item, transcript, suffix) ==
    LET isExternal == IF item.assignee # <<>>
                      THEN ~isInternalEmail(item.assignee)
                      ELSE FALSE
    IN  [ id |-> <<"ff-ai", transcript.id, suffix>>,
          description |-> item.text,
          owner |-> IF isExternal THEN "theirs" ELSE "ours",
          assignee |-> item.assignee,
          dueDate |-> IF item.dueDate # None THEN Some(newDate(item.dueDate[1])) ELSE None,
          createdDate |-> transcript.date,
          status |-> "pending",
          source |-> transcript.title,
          daysOverdue |-> None ]

\* The body of the loop over transcript.participants
RECURSIVE ExtractCallParticipants(_, _, _)
ExtractCallParticipants(participants, emails, transcript) ==
    IF emails = <<>> THEN participants
    ELSE LET email == Head(emails)
             idx == RegistryIndex(participants, email)
             existing == IF idx = 0 THEN NewParticipant(email, <<>>)
                         ELSE participants[idx]
             interaction == [ id |-> <<"ff", transcript.id>>,
                              date |-> transcript.date,
                              type |-> "call",
                              title |-> transcript.title,
                              summary |-> transcript.summary ]
             updated == [existing EXCEPT
                            !.previousInteractions = Append(@, interaction),
                            !.lastInteractionDate = Some(transcript.date),
                            !.totalInteractions = @ + 1]
         IN  IF isInternalEmail(email)
             THEN ExtractCallParticipants(participants, Tail(emails), transcript)
             ELSE ExtractCallParticipants(RegistrySet(participants, email, updated),
                                          Tail(emails), transcript)

\* The loop over transcript.actionItems; rnd is the stream of random draws,
\* one per action item created so far in this merge.
RECURSIVE ExtractActionItems(_, _, _, _)
ExtractActionItems(actionItems, items, transcript, rnd) ==
    IF items = <<>> THEN actionItems
    ELSE ExtractActionItems(
            Append(actionItems,
                   convertFirefliesActionItem(Head(items), transcript,
                                              rnd[Len(actionItems) + 1])),
            Tail(items), transcript, rnd)

RECURSIVE mergeFirefliesData(_, _, _)
mergeFirefliesData(res, transcripts, rnd) ==
    IF transcripts = <<>> THEN res
    ELSE LET transcript == Head(transcripts)
             event == [ id |-> <<"ff", transcript.id>>,
                        date |-> transcript.date,
                        type |-> "call",
                        title |-> transcript.title,
                        description |-> transcript.summary,
                        participants |-> transcript.participants ]
         IN  mergeFirefliesData(
                [res EXCEPT
                    !.timeline = Append(@, event),
                    !.participants = ExtractCallParticipants(@, transcript.participants, transcript),
                    !.actionItems = ExtractActionItems(@, transcript.actionItems, transcript, rnd)],
                Tail(transcripts), rnd)

\* The date keys of the messages in the order in which the Map first saw them
RECURSIVE DateKeysInOrder(_, _)
DateKeysInOrder(keys, messages) ==
    IF messages = <<>> THEN keys
    ELSE LET k == dateKey(Head(messages).timestamp)
         IN  DateKeysInOrder(IF k \in Range(keys) THEN keys ELSE Append(keys, k),
                             Tail(messages))

SIGNIFICANT_ACTIVITY == 3

RECURSIVE SlackEvents(_, _, _)
SlackEvents(keys, messages, opts) ==
    IF keys = <<>> THEN <<>>
    ELSE LET k == Head(keys)
             n == Cardinality({i \in DOMAIN messages : dateKey(messages[i].timestamp) = k})
             event == [ id |-> <<"slack", k>>,
                        date |-> dateOfKey(k),
                        type |-> "note",
                        title |-> NumStr(n) \o <<" ", "S", "l", "a", "c", "k", " ",
                                               "m", "e", "n", "t", "i", "o", "n", "s">>,
                        \* `Internal discussion about ${options.accountName}`
                        description |-> <<"I", "n", "t", "e", "r", "n", "a", "l", " ", "d", "i", "s",
                                          "c", "u", "s", "s", "i", "o", "n", " ", "a", "b", "o", "u",
                                          "t", " ">> \o opts.accountName,
                        participants |-> <<>> ]
         IN  (IF n >= SIGNIFICANT_ACTIVITY THEN <<event>> ELSE <<>>)
             \o SlackEvents(Tail(keys), messages, opts)

\* new Date(message.timestamp).toISOString() throws a RangeError on a
\* timestamp that does not parse; nothing in the merger catches it.
mergeSlackData(res, messages, opts) ==
    IF \E i \in DOMAIN messages : ~messages[i].timestamp.valid
    THEN [res EXCEPT !.threw = TRUE]
    ELSE [res EXCEPT !.timeline =
            @ \o SlackEvents(DateKeysInOrder(<<>>, messages), messages, opts)]

RECURSIVE ExtractAttendees(_, _)
ExtractAttendees(participants, attendees) ==
    IF attendees = <<>> THEN participants
    ELSE LET attendee == Head(attendees)
             idx == RegistryIndex(participants, attendee.email)
             existing == IF idx = 0
                         THEN NewParticipant(attendee.email, attendee.displayName)
                         ELSE participants[idx]
             named == IF attendee.displayName # <<>> /\ existing.name = <<>>
                      THEN [existing EXCEPT !.name = attendee.displayName]
                      ELSE existing
         IN  IF isInternalEmail(attendee.email)
             THEN ExtractAttendees(participants, Tail(attendees))
             ELSE ExtractAttendees(RegistrySet(participants, attendee.email, named),
                                   Tail(attendees))

RECURSIVE mergeCalendarData(_, _, _)
mergeCalendarData(res, events, opts) ==
    IF events = <<>> THEN res
    ELSE LET event == Head(events)
             hasAccountAttendee ==
                \E i \in DOMAIN event.attendees :
                    LET domain == extractDomain(event.attendees[i].email)
                    IN  /\ domain # NoDomain
                        /\ toLowerCase(domain) = toLowerCase(opts.accountDomain)
             EmailOf(a) == a.email
             timelineEvent == [ id |-> <<"cal", event.id>>,
                                date |-> event.start,
                                type |-> "meeting",
                                title |-> event.summary,
                                description |-> <<>>,
                                participants |-> SeqMap(event.attendees, EmailOf) ]
         IN  IF ~hasAccountAttendee
             THEN mergeCalendarData(res, Tail(events), opts)
             ELSE mergeCalendarData(
                    [res EXCEPT
                        !.timeline = Append(@, timelineEvent),
                        !.participants = ExtractAttendees(@, event.attendees)],
                    Tail(events), opts)

NewerFirst(a, b) == b.date - a.date < 0
OlderFirst(a, b) == a.date - b.date < 0

deduplicateParticipants(res) ==
    LET Deduplicate(participant) ==
            LET sorted == StableSort(participant.previousInteractions, NewerFirst)
            IN  [participant EXCEPT
                    !.previousInteractions = sorted,
                    !.lastInteractionDate =
                        IF sorted # <<>> THEN Some(sorted[1].date) ELSE @]
    IN  [res EXCEPT !.participants = SeqMap(@, Deduplicate)]

sortTimelineUnsorted(res) == res

sortTimeline(res) == [res EXCEPT !.timeline = StableSort(@, OlderFirst)]

IsOpen(item) == item.status = "pending" \/ item.status = "overdue"

computeAccountMetrics(res) ==
    LET Contact(p) == [ id |-> p.email, email |-> p.email, name |-> p.name, title |-> p.title ]
    IN
    [res EXCEPT
        !.account.lastContactDate =
            IF res.timeline # <<>> THEN Some(res.timeline[Len(res.timeline)].date) ELSE @,
        !.account.openActionItems = SeqFilter(res.actionItems, IsOpen),
        !.account.contacts = SeqMap(res.participants, Contact),
        !.account.timeline = res.timeline]

\* A throw in one source merger leaves mergeAllData at once: nothing later runs.
mergeAllData(fireflies, slack, calendar, opts, rnd) ==
    LET r0 == EmptyMergedData(opts)
        r1 == mergeFirefliesData(r0, fireflies.transcripts, rnd)
        r2 == mergeSlackData(r1, slack.messages, opts)
        r3 == mergeCalendarData(r2, calendar.events, opts)
    IN  IF r2.threw THEN r2
        ELSE computeAccountMetrics(sortTimeline(deduplicateParticipants(r3)))

getUniqueParticipantEmails(d) ==
    LET KeyOf(p) == p.key
    IN  SeqMap(d.participants, KeyOf)

IsExternalKey(email) == ~isInternalEmail(email)

getExternalParticipantEmails(d) == SeqFilter(getUniqueParticipantEmails(d), IsExternalKey)

(***************************************************************************)
(* Account Analyzer (accountAnalyzer.ts).                                  *)
(***************************************************************************)
NO_CONTACT_SENTINEL == 999

calculateDaysSinceLastContactNoSentinel(timeline) ==
    IF timeline = <<>> THEN 0
    ELSE daysAgo(StableSort(timeline, NewerFirst)[1].date)

calculateDaysSinceLastContact(timeline) ==
    IF timeline = <<>> THEN NO_CONTACT_SENTINEL
    ELSE daysAgo(StableSort(timeline, NewerFirst)[1].date)

VELOCITY_WINDOW_DAYS == 30

\* (recentEvents.length / 30) * 7 >= 2, and >= 0.5, over the integers
calculateEngagementVelocity(timeline) ==
    LET thirtyDaysAgo == Now - VELOCITY_WINDOW_DAYS * TicksPerDay
        n == Cardinality({i \in DOMAIN timeline : timeline[i].date >= thirtyDaysAgo})
    IN  IF n * 7 >= 2 * VELOCITY_WINDOW_DAYS THEN "high"
        ELSE IF n * 7 * 2 >= VELOCITY_WINDOW_DAYS THEN "medium"
        ELSE "low"

CountWhere(s, Test(_)) == Cardinality({i \in DOMAIN s : Test(s[i])})

IsOverdueOurs(i) == i.owner = "ours" /\ i.status = "overdue"
IsOverdueTheirs(i) == i.owner = "theirs" /\ i.status = "overdue"
IsRecentCall(e) == e.type = "call" /\ daysAgo(e.date) <= 14

Max(a, b) == IF a >= b THEN a ELSE b
Min(a, b) == IF a <= b THEN a ELSE b

MomentumRaw(d, daysSinceLastContact) ==
    LET participantCount == Len(d.participants)
        recentCalls == CountWhere(d.timeline, IsRecentCall)
    IN  50
        + (IF daysSinceLastContact <= 3 THEN 20
           ELSE IF daysSinceLastContact <= 7 THEN 10
           ELSE IF daysSinceLastContact > 14 THEN -20
           ELSE IF daysSinceLastContact > 30 THEN -40
           ELSE 0)
        + (IF participantCount >= 5 THEN 15
           ELSE IF participantCount >= 3 THEN 10
           ELSE IF participantCount < 2 THEN -10
           ELSE 0)
        + (IF recentCalls >= 2 THEN 15
           ELSE IF recentCalls >= 1 THEN 5
           ELSE 0)
        - CountWhere(d.actionItems, IsOverdueOurs) * 5
        - CountWhere(d.actionItems, IsOverdueTheirs) * 3

calculateMomentumScoreUnclamped(d, daysSinceLastContact) ==
    MomentumRaw(d, daysSinceLastContact)

calculateMomentumScore(d, daysSinceLastContact) ==
    Max(0, Min(100, MomentumRaw(d, daysSinceLastContact)))

scoreMomentum(score) ==
    IF score >= 70 THEN "accelerating"
    ELSE IF score >= 50 THEN "stable"
    ELSE IF score >= 30 THEN "stalling"
    ELSE "at-risk"

IsHigh(r) == r.severity = "high"
IsMedium(r) == r.severity = "medium"
IsOverdue(i) == i.status = "overdue"

calculateHealthScoreRisksOnly(momentumScore, risks, actionItems) ==
    Max(0, Min(100, momentumScore
                    - CountWhere(risks, IsHigh) * 15
                    - CountWhere(risks, IsMedium) * 5))

calculateHealthScore(momentumScore, risks, actionItems) ==
    Max(0, Min(100, momentumScore
                    - CountWhere(risks, IsHigh) * 15
                    - CountWhere(risks, IsMedium) * 5
                    - CountWhere(actionItems, IsOverdue) * 3))

Risk(id, type, severity, description, mitigation) ==
    [ id |-> id, type |-> type, severity |-> severity,
      description |-> description, mitigationSuggestion |-> mitigation ]

detectRisksOneOverdueRule(d, daysSinceLastContact, daysInStage) ==
    LET overdueOurs == CountWhere(d.actionItems, IsOverdueOurs)
        overdueTheirs == CountWhere(d.actionItems, IsOverdueTheirs)
        hasChampion == \E i \in DOMAIN d.participants : d.participants[i].role = "champion"
        hasEconomicBuyer ==
            \E i \in DOMAIN d.participants : d.participants[i].role = "economic-buyer"
    IN  (IF daysSinceLastContact > 7
         THEN <<Risk("risk-stale-comm", "timeline",
                     IF daysSinceLastContact > 14 THEN "high" ELSE "medium",
                     \* `No contact in ${daysSinceLastContact} days`
                     <<"N", "o", " ", "c", "o", "n", "t", "a", "c", "t", " ", "i", "n", " ">>
                     \o NumStr(daysSinceLastContact) \o <<" ", "d", "a", "y", "s">>,
                     "Schedule a check-in call or send an update")>>
         ELSE <<>>)
        \o
        (IF daysInStage > 30
         THEN <<Risk("risk-stuck-stage", "timeline",
                     IF daysInStage > 60 THEN "high" ELSE "medium",
                     \* `Deal has been in current stage for ${daysInStage} days`
                     <<"D", "e", "a", "l", " ", "h", "a", "s", " ", "b", "e", "e", "n", " ",
                       "i", "n", " ", "c", "u", "r", "r", "e", "n", "t", " ", "s", "t", "a", "g",
                       "e", " ", "f", "o", "r", " ">>
                     \o NumStr(daysInStage) \o <<" ", "d", "a", "y", "s">>,
                     "Identify and address blockers to move forward")>>
         ELSE <<>>)
        \o
        (IF Len(d.participants) < 3
         THEN <<Risk("risk-single-thread", "stakeholder", "medium",
                     \* 'Limited multi-threading - only engaging few stakeholders'
                     <<"L", "i", "m", "i", "t", "e", "d", " ", "m", "u", "l", "t", "i", "-",
                       "t", "h", "r", "e", "a", "d", "i", "n", "g", " ", "-", " ", "o", "n", "l",
                       "y", " ", "e", "n", "g", "a", "g", "i", "n", "g", " ", "f", "e", "w", " ",
                       "s", "t", "a", "k", "e", "h", "o", "l", "d", "e", "r", "s">>,
                     "Identify and engage additional decision makers")>>
         ELSE <<>>)
        \o
        (IF overdueOurs > 0
         THEN <<Risk("risk-overdue-ours", "timeline",
                     IF overdueOurs > 2 THEN "high" ELSE "medium",
                     \* `${overdueOurs.length} overdue action items on our side`
                     NumStr(overdueOurs) \o
                     <<" ", "o", "v", "e", "r", "d", "u", "e", " ", "a", "c", "t", "i", "o",
                       "n", " ", "i", "t", "e", "m", "s", " ", "o", "n", " ", "o", "u", "r", " ",
                       "s", "i", "d", "e">>,
                     "Complete overdue items or communicate new timeline")>>
         ELSE <<>>)
        \o
        (IF overdueTheirs > 0 /\ overdueOurs = 0
         THEN <<Risk("risk-overdue-theirs", "timeline",
                     IF overdueTheirs > 2 THEN "high" ELSE "medium",
                     \* `${overdueTheirs.length} overdue action items waiting on customer`
                     NumStr(overdueTheirs) \o
                     <<" ", "o", "v", "e", "r", "d", "u", "e", " ", "a", "c", "t", "i", "o",
                       "n", " ", "i", "t", "e", "m", "s", " ", "w", "a", "i", "t", "i", "n", "g",
                       " ", "o", "n", " ", "c", "u", "s", "t", "o", "m", "e", "r">>,
                     "Follow up on pending items and offer assistance")>>
         ELSE <<>>)
        \o
        (IF ~hasChampion /\ Len(d.participants) > 0
         THEN <<Risk("risk-no-champion", "stakeholder", "medium",
                     \* 'No clear internal champion identified'
                     <<"N", "o", " ", "c", "l", "e", "a", "r", " ", "i", "n", "t", "e", "r",
                       "n", "a", "l", " ", "c", "h", "a", "m", "p", "i", "o", "n", " ", "i", "d",
                       "e", "n", "t", "i", "f", "i", "e", "d">>,
                     "Identify and cultivate an internal advocate")>>
         ELSE <<>>)
        \o
        (IF ~hasEconomicBuyer /\ Len(d.participants) >= 3
         THEN <<Risk("risk-no-buyer", "stakeholder", "high",
                     \* 'Economic buyer not yet engaged'
                     <<"E", "c", "o", "n", "o", "m", "i", "c", " ", "b", "u", "y", "e", "r",
                       " ", "n", "o", "t", " ", "y", "e", "t", " ", "e", "n", "g", "a", "g", "e",
                       "d">>,
                     "Get introduction to budget holder before POC ends")>>
         ELSE <<>>)

detectRisks(d, daysSinceLastContact, daysInStage) ==
    LET overdueOurs == CountWhere(d.actionItems, IsOverdueOurs)
        overdueTheirs == CountWhere(d.actionItems, IsOverdueTheirs)
        hasChampion == \E i \in DOMAIN d.participants : d.participants[i].role = "champion"
        hasEconomicBuyer ==
            \E i \in DOMAIN d.participants : d.participants[i].role = "economic-buyer"
    IN  (IF daysSinceLastContact > 7
         THEN <<Risk("risk-stale-comm", "timeline",
                     IF daysSinceLastContact > 14 THEN "high" ELSE "medium",
                     \* `No contact in ${daysSinceLastContact} days`
                     <<"N", "o", " ", "c", "o", "n", "t", "a", "c", "t", " ", "i", "n", " ">>
                     \o NumStr(daysSinceLastContact) \o <<" ", "d", "a", "y", "s">>,
                     "Schedule a check-in call or send an update")>>
         ELSE <<>>)
        \o
        (IF daysInStage > 30
         THEN <<Risk("risk-stuck-stage", "timeline",
                     IF daysInStage > 60 THEN "high" ELSE "medium",
                     \* `Deal has been in current stage for ${daysInStage} days`
                     <<"D", "e", "a", "l", " ", "h", "a", "s", " ", "b", "e", "e", "n", " ",
                       "i", "n", " ", "c", "u", "r", "r", "e", "n", "t", " ", "s", "t", "a", "g",
                       "e", " ", "f", "o", "r", " ">>
                     \o NumStr(daysInStage) \o <<" ", "d", "a", "y", "s">>,
                     "Identify and address blockers to move forward")>>
         ELSE <<>>)
        \o
        (IF Len(d.participants) < 3
         THEN <<Risk("risk-single-thread", "stakeholder", "medium",
                     \* 'Limited multi-threading - only engaging few stakeholders'
                     <<"L", "i", "m", "i", "t", "e", "d", " ", "m", "u", "l", "t", "i", "-",
                       "t", "h", "r", "e", "a", "d", "i", "n", "g", " ", "-", " ", "o", "n", "l",
                       "y", " ", "e", "n", "g", "a", "g", "i", "n", "g", " ", "f", "e", "w", " ",
                       "s", "t", "a", "k", "e", "h", "o", "l", "d", "e", "r", "s">>,
                     "Identify and engage additional decision makers")>>
         ELSE <<>>)
        \o
        (IF overdueOurs > 0
         THEN <<Risk("risk-overdue-ours", "timeline",
                     IF overdueOurs > 2 THEN "high" ELSE "medium",
                     \* `${overdueOurs.length} overdue action items on our side`
                     NumStr(overdueOurs) \o
                     <<" ", "o", "v", "e", "r", "d", "u", "e", " ", "a", "c", "t", "i", "o",
                       "n", " ", "i", "t", "e", "m", "s", " ", "o", "n", " ", "o", "u", "r", " ",
                       "s", "i", "d", "e">>,
                     "Complete overdue items or communicate new timeline")>>
         ELSE <<>>)
        \o
        (IF overdueTheirs > 0
         THEN <<Risk("risk-overdue-theirs", "timeline",
                     IF overdueTheirs > 2 THEN "high" ELSE "medium",
                     \* `${overdueTheirs.length} overdue action items waiting on customer`
                     NumStr(overdueTheirs) \o
                     <<" ", "o", "v", "e", "r", "d", "u", "e", " ", "a", "c", "t", "i", "o",
                       "n", " ", "i", "t", "e", "m", "s", " ", "w", "a", "i", "t", "i", "n", "g",
                       " ", "o", "n", " ", "c", "u", "s", "t", "o", "m", "e", "r">>,
                     "Follow up on pending items and offer assistance")>>
         ELSE <<>>)
        \o
        (IF ~hasChampion /\ Len(d.participants) > 0
         THEN <<Risk("risk-no-champion", "stakeholder", "medium",
                     \* 'No clear internal champion identified'
                     <<"N", "o", " ", "c", "l", "e", "a", "r", " ", "i", "n", "t", "e", "r",
                       "n", "a", "l", " ", "c", "h", "a", "m", "p", "i", "o", "n", " ", "i", "d",
                       "e", "n", "t", "i", "f", "i", "e", "d">>,
                     "Identify and cultivate an internal advocate")>>
         ELSE <<>>)
        \o
        (IF ~hasEconomicBuyer /\ Len(d.participants) >= 3
         THEN <<Risk("risk-no-buyer", "stakeholder", "high",
                     \* 'Economic buyer not yet engaged'
                     <<"E", "c", "o", "n", "o", "m", "i", "c", " ", "b", "u", "y", "e", "r",
                       " ", "n", "o", "t", " ", "y", "e", "t", " ", "e", "n", "g", "a", "g", "e",
                       "d">>,
                     "Get introduction to budget holder before POC ends")>>
         ELSE <<>>)

\* opts.stageStartDate is an optional date. Insight sentences are not modelled.
analyzeAccount(d, opts) ==
    LET daysSinceLastContact == calculateDaysSinceLastContact(d.timeline)
        daysInStage == IF opts.stageStartDate # None
                       THEN daysAgo(opts.stageStartDate[1]) ELSE 0
        momentumScore == calculateMomentumScore(d, daysSinceLastContact)
        risks == detectRisks(d, daysSinceLastContact, daysInStage)
    IN  [ momentum |-> scoreMomentum(momentumScore),
          momentumScore |-> momentumScore,
          engagementVelocity |-> calculateEngagementVelocity(d.timeline),
          daysInStage |-> daysInStage,
          daysSinceLastContact |-> daysSinceLastContact,
          risks |-> risks,
          healthScore |-> calculateHealthScore(momentumScore, risks, d.actionItems) ]

(***************************************************************************)
(* Participant Profiler (participantProfiler.ts).                          *)
(***************************************************************************)
ROLE_KEYWORDS ==
    << [ role |-> "champion",
         keywords |-> << <<"a", "d", "v", "o", "c", "a", "t", "e">>,
                         <<"s", "p", "o", "n", "s", "o", "r">>,
                         <<"s", "u", "p", "p", "o", "r", "t", "e", "r">>,
                         <<"d", "r", "i", "v", "i", "n", "g">>,
                         <<"p", "u", "s", "h", "i", "n", "g">>,
                         <<"e", "x", "c", "i", "t", "e", "d">>,
                         <<"e", "n", "t", "h", "u", "s", "i", "a", "s", "t", "i", "c">> >> ],
       [ role |-> "blocker",
         keywords |-> << <<"c", "o", "n", "c", "e", "r", "n">>,
                         <<"h", "e", "s", "i", "t", "a", "n", "t">>,
                         <<"p", "u", "s", "h", "b", "a", "c", "k">>,
                         <<"s", "k", "e", "p", "t", "i", "c", "a", "l">>,
                         <<"o", "p", "p", "o", "s", "e", "d">>,
                         <<"b", "l", "o", "c", "k", "i", "n", "g">>,
                         <<"r", "e", "s", "i", "s", "t", "a", "n", "t">> >> ],
       [ role |-> "economic-buyer",
         keywords |-> << <<"b", "u", "d", "g", "e", "t">>,
                         <<"a", "p", "p", "r", "o", "v", "e">>,
                         <<"s", "i", "g", "n", " ", "o", "f", "f">>,
                         <<"a", "u", "t", "h", "o", "r", "i", "z", "e">>,
                         <<"p", "r", "o", "c", "u", "r", "e", "m", "e", "n", "t">>,
                         <<"p", "u", "r", "c", "h", "a", "s", "e">>,
                         <<"c", "o", "n", "t", "r", "a", "c", "t">>,
                         <<"v", "p">>,
                         <<"d", "i", "r", "e", "c", "t", "o", "r">>,
                         <<"h", "e", "a", "d", " ", "o", "f">>,
                         <<"c", "h", "i", "e", "f">> >> ],
       [ role |-> "technical-evaluator",
         keywords |-> << <<"e", "v", "a", "l", "u", "a", "t", "e">>,
                         <<"t", "e", "s", "t">>,
                         <<"p", "o", "c">>,
                         <<"p", "r", "o", "o", "f", " ", "o", "f", " ", "c", "o", "n", "c", "e", "p", "t">>,
                         <<"t", "e", "c", "h", "n", "i", "c", "a", "l">>,
                         <<"e", "n", "g", "i", "n", "e", "e", "r">>,
                         <<"a", "r", "c", "h", "i", "t", "e", "c", "t">>,
                         <<"d", "e", "v", "e", "l", "o", "p", "e", "r">>,
                         <<"s", "e", "c", "u", "r", "i", "t", "y">>,
                         <<"i", "n", "f", "r", "a", "s", "t", "r", "u", "c", "t", "u", "r", "e">> >> ],
       [ role |-> "decision-maker",
         keywords |-> << <<"d", "e", "c", "i", "d", "e">>,
                         <<"f", "i", "n", "a", "l", " ", "s", "a", "y">>,
                         <<"a", "p", "p", "r", "o", "v", "a", "l">>,
                         <<"e", "x", "e", "c", "u", "t", "i", "v", "e">>,
                         <<"l", "e", "a", "d", "e", "r">>,
                         <<"m", "a", "n", "a", "g", "e", "r">>,
                         <<"d", "i", "r", "e", "c", "t", "o", "r">> >> ],
       [ role |-> "influencer",
         keywords |-> << <<"r", "e", "c", "o", "m", "m", "e", "n", "d">>,
                         <<"s", "u", "g", "g", "e", "s", "t">>,
                         <<"a", "d", "v", "i", "s", "e">>,
                         <<"c", "o", "n", "s", "u", "l", "t">>,
                         <<"s", "t", "a", "k", "e", "h", "o", "l", "d", "e", "r">>,
                         <<"i", "n", "p", "u", "t">> >> ],
       [ role |-> "unknown", keywords |-> << >> ] >>

\* Each RegExp /\b(w1|w2|...)\b/i as the list of its alternatives
TITLE_ROLE_PATTERNS ==
    << [ pattern |-> << <<"c", "e", "o">>,
                        <<"c", "t", "o">>,
                        <<"c", "f", "o">>,
                        <<"c", "o", "o">>,
                        <<"c", "i", "s", "o">>,
                        <<"c", "i", "o">> >>, role |-> "economic-buyer" ],
       [ pattern |-> << <<"v", "p">>,
                        <<"v", "i", "c", "e", " ", "p", "r", "e", "s", "i", "d", "e", "n", "t">>,
                        <<"s", "v", "p">>,
                        <<"e", "v", "p">> >>, role |-> "economic-buyer" ],
       [ pattern |-> << <<"d", "i", "r", "e", "c", "t", "o", "r">>,
                        <<"h", "e", "a", "d", " ", "o", "f">> >>, role |-> "decision-maker" ],
       [ pattern |-> << <<"e", "n", "g", "i", "n", "e", "e", "r">>,
                        <<"d", "e", "v", "e", "l", "o", "p", "e", "r">>,
                        <<"a", "r", "c", "h", "i", "t", "e", "c", "t">> >>, role |-> "technical-evaluator" ],
       [ pattern |-> << <<"s", "e", "c", "u", "r", "i", "t", "y">>,
                        <<"i", "n", "f", "o", "s", "e", "c">>,
                        <<"c", "y", "b", "e", "r">> >>, role |-> "technical-evaluator" ],
       [ pattern |-> << <<"p", "r", "o", "c", "u", "r", "e", "m", "e", "n", "t">>,
                        <<"p", "u", "r", "c", "h", "a", "s", "i", "n", "g">>,
                        <<"b", "u", "y", "e", "r">> >>, role |-> "economic-buyer" ],
       [ pattern |-> << <<"m", "a", "n", "a", "g", "e", "r">> >>, role |-> "influencer" ],
       [ pattern |-> << <<"a", "n", "a", "l", "y", "s", "t">>,
                        <<"s", "p", "e", "c", "i", "a", "l", "i", "s", "t">> >>, role |-> "influencer" ] >>

\* sr\.? and jr\.? between word boundaries match exactly where sr and jr do
INFLUENCE_PATTERNS ==
    << [ pattern |-> << <<"c", "e", "o">>,
                        <<"c", "t", "o">>,
                        <<"c", "f", "o">>,
                        <<"c", "o", "o">>,
                        <<"c", "i", "s", "o">>,
                        <<"c", "i", "o">> >>, influence |-> "high" ],
       [ pattern |-> << <<"v", "p">>,
                        <<"v", "i", "c", "e", " ", "p", "r", "e", "s", "i", "d", "e", "n", "t">>,
                        <<"s", "v", "p">>,
                        <<"e", "v", "p">> >>, influence |-> "high" ],
       [ pattern |-> << <<"d", "i", "r", "e", "c", "t", "o", "r">>,
                        <<"h", "e", "a", "d", " ", "o", "f">> >>, influence |-> "high" ],
       [ pattern |-> << <<"s", "e", "n", "i", "o", "r">>,
                        <<"s", "r">>,
                        <<"p", "r", "i", "n", "c", "i", "p", "a", "l">>,
                        <<"s", "t", "a", "f", "f">> >>, influence |-> "medium" ],
       [ pattern |-> << <<"m", "a", "n", "a", "g", "e", "r">>,
                        <<"l", "e", "a", "d">> >>, influence |-> "medium" ],
       [ pattern |-> << <<"j", "u", "n", "i", "o", "r">>,
                        <<"j", "r">>,
                        <<"a", "s", "s", "o", "c", "i", "a", "t", "e">>,
                        <<"i", "n", "t", "e", "r", "n">> >>, influence |-> "low" ] >>

IsWordChar(c) ==
    \/ \E i \in DOMAIN LowerChars : LowerChars[i] = c \/ UpperChars[i] = c
    \/ c \in {"0", "1", "2", "3", "4", "5", "6", "7", "8", "9", "_"}

\* /\bw\b/.test(s) for a word w that begins and ends with a word character
wordMatch(s, w) ==
    \E i \in 1..(Len(s) - Len(w) + 1) :
        /\ \A j \in DOMAIN w : s[i + j - 1] = w[j]
        /\ (i = 1 \/ ~IsWordChar(s[i - 1]))
        /\ (i + Len(w) - 1 = Len(s) \/ ~IsWordChar(s[i + Len(w)]))

patternTest(pattern, s) == \E i \in DOMAIN pattern : wordMatch(s, pattern[i])

\* interactions.map(i => `${i.title ?? ''} ${i.summary ?? ''}`).join(' ')
RECURSIVE InteractionText(_)
InteractionText(interactions) ==
    IF interactions = <<>> THEN <<>>
    ELSE Head(interactions).title \o <<" ">> \o Head(interactions).summary
         \o (IF Len(interactions) > 1 THEN <<" ">> ELSE <<>>)
         \o InteractionText(Tail(interactions))

inferRole(participant) ==
    LET title == toLowerCase(participant.title)
        allText == toLowerCase(InteractionText(participant.previousInteractions))
        score == [r \in DOMAIN ROLE_KEYWORDS |->
                    Cardinality({k \in DOMAIN ROLE_KEYWORDS[r].keywords :
                                    includes(allText, ROLE_KEYWORDS[r].keywords[k])})]
        best[r \in 0..Len(ROLE_KEYWORDS)] ==
            IF r = 0 THEN [role |-> "unknown", score |-> 0]
            ELSE LET prev == best[r - 1]
                     scored == score[r]
                 IN  IF scored > prev.score
                     THEN [role |-> ROLE_KEYWORDS[r].role, score |-> scored]
                     ELSE prev
    IN  IF \E p \in DOMAIN TITLE_ROLE_PATTERNS : patternTest(TITLE_ROLE_PATTERNS[p].pattern, title)
        THEN TITLE_ROLE_PATTERNS[CHOOSE p \in DOMAIN TITLE_ROLE_PATTERNS :
                /\ patternTest(TITLE_ROLE_PATTERNS[p].pattern, title)
                /\ \A q \in 1..(p - 1) : ~patternTest(TITLE_ROLE_PATTERNS[q].pattern, title)].role
        ELSE best[Len(ROLE_KEYWORDS)].role

inferInfluence(participant) ==
    LET title == toLowerCase(participant.title)
        interactionCount == participant.totalInteractions
    IN  IF \E p \in DOMAIN INFLUENCE_PATTERNS : patternTest(INFLUENCE_PATTERNS[p].pattern, title)
        THEN INFLUENCE_PATTERNS[CHOOSE p \in DOMAIN INFLUENCE_PATTERNS :
                /\ patternTest(INFLUENCE_PATTERNS[p].pattern, title)
                /\ \A q \in 1..(p - 1) : ~patternTest(INFLUENCE_PATTERNS[q].pattern, title)].influence
        ELSE IF interactionCount >= 5 THEN "high"
        ELSE IF interactionCount >= 2 THEN "medium"
        ELSE "low"

\* A number score / factors, kept as a fraction: score counts halves
Ratio(n, d) == [ num |-> n, den |-> d ]
RatioLeq(a, b) == a.num * b.den <= b.num * a.den
RatioEq(a, b) == a.num * b.den = b.num * a.den

\* if (profile.f): the property is there and is not the empty string
Truthy(profile, f) == f \in DOMAIN profile /\ profile[f] # <<>>

CONFIDENCE_SIGNALS == <<"name", "title", "company", "linkedInUrl", "background",
                        "previousInteractions">>

calculateConfidence(profile) ==
    LET present == Cardinality({i \in DOMAIN CONFIDENCE_SIGNALS :
                                   Truthy(profile, CONFIDENCE_SIGNALS[i])})
        known == IF profile.role # "unknown" THEN 1 ELSE 0
        \* twice the score, so that 0.5 is 1
        score2 == 2 * present + known
        factors == present + known
    IN  IF factors > 0 THEN Ratio(score2, 2 * factors) ELSE Ratio(0, 1)

\* Without a PersonInfo record and with the default options. The record of a
\* profile keeps the fields the later stages read.
enrichParticipant(participant) ==
    LET withRole == IF participant.role = "unknown"
                    THEN [participant EXCEPT !.role = inferRole(participant)]
                    ELSE participant
        profile == [withRole EXCEPT !.influence = inferInfluence(withRole)]
    IN  profile @@ [ confidence |-> calculateConfidence(profile) ]

profileParticipants(participants) ==
    SeqMap(participants, enrichParticipant)

(***************************************************************************)
(* Goal Generator (goalGenerator.ts).                                      *)
(* A goal keeps id, priority, title, the presence of a suggested approach  *)
(* and its related risk and action-item ids; rationale text is not read by *)
(* any later stage and is left out.                                        *)
(***************************************************************************)
hasEconomicBuyerEngaged(ctx) ==
    \E i \in DOMAIN ctx.participants : ctx.participants[i].role = "economic-buyer"

\* skipIfBuyer stands for: condition: ctx => !hasEconomicBuyerEngaged(ctx)
STAGE_GOAL_TEMPLATES ==
    << [ stages |-> << <<"d", "i", "s", "c", "o", "v", "e", "r", "y">>,
                       <<"q", "u", "a", "l", "i", "f", "i", "c", "a", "t", "i", "o", "n">>,
                       <<"i", "n", "i", "t", "i", "a", "l">> >>,
         goals |-> <<
            [ title |-> <<"C", "o", "n", "f", "i", "r", "m", " ", "d", "e", "c", "i", "s", "i",
                          "o", "n", "-", "m", "a", "k", "i", "n", "g", " ", "p", "r", "o", "c",
                          "e", "s", "s", " ", "a", "n", "d", " ", "t", "i", "m", "e", "l", "i",
                          "n", "e">>,
              skipIfBuyer |-> FALSE ],
            [ title |-> <<"I", "d", "e", "n", "t", "i", "f", "y", " ", "a", "l", "l", " ", "k",
                          "e", "y", " ", "s", "t", "a", "k", "e", "h", "o", "l", "d", "e", "r",
                          "s">>,
              skipIfBuyer |-> FALSE ],
            [ title |-> <<"U", "n", "d", "e", "r", "s", "t", "a", "n", "d", " ", "c", "u", "r",
                          "r", "e", "n", "t", " ", "s", "o", "l", "u", "t", "i", "o", "n", " ",
                          "a", "n", "d", " ", "p", "a", "i", "n", " ", "p", "o", "i", "n", "t",
                          "s">>,
              skipIfBuyer |-> FALSE ] >> ],
       [ stages |-> << <<"p", "o", "c">>,
                       <<"p", "r", "o", "o", "f", " ", "o", "f", " ", "c", "o", "n", "c", "e", "p", "t">>,
                       <<"p", "i", "l", "o", "t">>,
                       <<"t", "r", "i", "a", "l">>,
                       <<"e", "v", "a", "l", "u", "a", "t", "i", "o", "n">> >>,
         goals |-> <<
            [ title |-> <<"C", "o", "n", "f", "i", "r", "m", " ", "P", "O", "C", " ", "s", "u",
                          "c", "c", "e", "s", "s", " ", "c", "r", "i", "t", "e", "r", "i", "a",
                          " ", "a", "r", "e", " ", "o", "n", " ", "t", "r", "a", "c", "k">>,
              skipIfBuyer |-> FALSE ],
            [ title |-> <<"A", "d", "d", "r", "e", "s", "s", " ", "a", "n", "y", " ", "t", "e",
                          "c", "h", "n", "i", "c", "a", "l", " ", "b", "l", "o", "c", "k", "e",
                          "r", "s">>,
              skipIfBuyer |-> FALSE ],
            [ title |-> <<"S", "c", "h", "e", "d", "u", "l", "e", " ", "e", "x", "e", "c", "u",
                          "t", "i", "v", "e", " ", "b", "r", "i", "e", "f", "i", "n", "g", " ",
                          "b", "e", "f", "o", "r", "e", " ", "P", "O", "C", " ", "e", "n", "d",
                          "s">>,
              skipIfBuyer |-> TRUE ],
            [ title |-> <<"V", "e", "r", "i", "f", "y", " ", "p", "r", "o", "c", "u", "r", "e",
                          "m", "e", "n", "t", " ", "t", "i", "m", "e", "l", "i", "n", "e">>,
              skipIfBuyer |-> FALSE ] >> ],
       [ stages |-> << <<"n", "e", "g", "o", "t", "i", "a", "t", "i", "o", "n">>,
                       <<"p", "r", "o", "p", "o", "s", "a", "l">>,
                       <<"c", "o", "n", "t", "r", "a", "c", "t">>,
                       <<"l", "e", "g", "a", "l">> >>,
         goals |-> <<
            [ title |-> <<"R", "e", "s", "o", "l", "v", "e", " ", "o", "u", "t", "s", "t", "a",
                          "n", "d", "i", "n", "g", " ", "c", "o", "n", "t", "r", "a", "c", "t",
                          " ", "t", "e", "r", "m", "s">>,
              skipIfBuyer |-> FALSE ],
            [ title |-> <<"C", "o", "n", "f", "i", "r", "m", " ", "b", "u", "d", "g", "e", "t",
                          " ", "a", "p", "p", "r", "o", "v", "a", "l", " ", "s", "t", "a", "t",
                          "u", "s">>,
              skipIfBuyer |-> FALSE ],
            [ title |-> <<"L", "o", "c", "k", " ", "i", "n", " ", "i", "m", "p", "l", "e", "m",
                          "e", "n", "t", "a", "t", "i", "o", "n", " ", "t", "i", "m", "e", "l",
                          "i", "n", "e">>,
              skipIfBuyer |-> FALSE ] >> ],
       [ stages |-> << <<"c", "l", "o", "s", "e", "d">>,
                       <<"w", "o", "n">>,
                       <<"c", "u", "s", "t", "o", "m", "e", "r">>,
                       <<"i", "m", "p", "l", "e", "m", "e", "n", "t", "a", "t", "i", "o", "n">> >>,
         goals |-> <<
            [ title |-> <<"C", "o", "n", "f", "i", "r", "m", " ", "i", "m", "p", "l", "e", "m",
                          "e", "n", "t", "a", "t", "i", "o", "n", " ", "m", "i", "l", "e", "s",
                          "t", "o", "n", "e", "s">>,
              skipIfBuyer |-> FALSE ],
            [ title |-> <<"I", "d", "e", "n", "t", "i", "f", "y", " ", "e", "x", "p", "a", "n",
                          "s", "i", "o", "n", " ", "o", "p", "p", "o", "r", "t", "u", "n", "i",
                          "t", "i", "e", "s">>,
              skipIfBuyer |-> FALSE ] >> ] >>

NewGoal(priority, title, hasApproach, relatedRisks, relatedActionItems) ==
    [ id |-> 0, priority |-> priority, title |-> title,
      suggestedApproach |-> hasApproach,
      relatedRisks |-> relatedRisks, relatedActionItems |-> relatedActionItems ]

\* account.dealStage?.toLowerCase() ?? 'unknown'
StageString(account) ==
    IF account.dealStage = None THEN <<"u", "n", "k", "n", "o", "w", "n">>
    ELSE toLowerCase(account.dealStage[1])

generateStageGoals(ctx) ==
    LET dealStage == StageString(ctx.account)
        matches(t) == \E k \in DOMAIN STAGE_GOAL_TEMPLATES[t].stages :
                          includes(dealStage, STAGE_GOAL_TEMPLATES[t].stages[k])
        applies(g) == ~(g.skipIfBuyer /\ hasEconomicBuyerEngaged(ctx))
        toGoal(g) == NewGoal(2, g.title, TRUE, <<>>, <<>>)
    IN  IF ~\E t \in DOMAIN STAGE_GOAL_TEMPLATES : matches(t)
        THEN <<NewGoal(2, <<"U", "n", "d", "e", "r", "s", "t", "a", "n", "d", " ", "c", "u",
                            "r", "r", "e", "n", "t", " ", "s", "t", "a", "t", "u", "s", " ", "a",
                            "n", "d", " ", "n", "e", "x", "t", " ", "s", "t", "e", "p", "s">>,
                       FALSE, <<>>, <<>>)>>
        ELSE LET t == CHOOSE t \in DOMAIN STAGE_GOAL_TEMPLATES :
                        matches(t) /\ \A u \in 1..(t - 1) : ~matches(u)
                 kept == SeqFilter(STAGE_GOAL_TEMPLATES[t].goals, applies)
             IN  SeqMap(kept, toGoal)

RECURSIVE generateRiskGoals(_)
generateRiskGoals(risks) ==
    IF risks = <<>> THEN <<>>
    ELSE LET risk == Head(risks)
         IN  (IF risk.severity = "high"
              THEN <<NewGoal(1, <<"A", "d", "d", "r", "e", "s", "s", ":", " ">> \o risk.description,
                             TRUE, <<risk.id>>, <<>>)>>
              ELSE <<>>)
             \o
             (IF risk.severity = "medium"
              THEN <<NewGoal(3, <<"D", "i", "s", "c", "u", "s", "s", ":", " ">> \o risk.description,
                             TRUE, <<risk.id>>, <<>>)>>
              ELSE <<>>)
             \o generateRiskGoals(Tail(risks))

IsTheirs(i) == i.owner = "theirs"
IsOurs(i) == i.owner = "ours"
IsPending(i) == i.status = "pending"

Ids(items) ==
    LET IdOf(item) == item.id
    IN  SeqMap(items, IdOf)

generateActionItemGoals(ctx) ==
    LET openItems == SeqFilter(ctx.mergedData.actionItems, IsOpen)
        theirItems == SeqFilter(openItems, IsTheirs)
        ourItems == SeqFilter(openItems, IsOurs)
        overdueTheirs == SeqFilter(theirItems, IsOverdue)
        pendingTheirs == SeqFilter(theirItems, IsPending)
    IN  (IF Len(overdueTheirs) > 0
         THEN <<NewGoal(1, <<"F", "o", "l", "l", "o", "w", " ", "u", "p", " ", "o", "n", " ",
                             "o", "v", "e", "r", "d", "u", "e", " ", "c", "u", "s", "t", "o",
                             "m", "e", "r", " ", "a", "c", "t", "i", "o", "n", " ", "i", "t",
                             "e", "m", "s">>,
                        TRUE, <<>>, Ids(overdueTheirs))>>
         ELSE <<>>)
        \o
        (IF Len(pendingTheirs) > 0 /\ Len(overdueTheirs) = 0
         THEN <<NewGoal(3, <<"C", "h", "e", "c", "k", " ", "s", "t", "a", "t", "u", "s", " ",
                             "o", "n", " ", "p", "e", "n", "d", "i", "n", "g", " ", "c", "u",
                             "s", "t", "o", "m", "e", "r", " ", "i", "t", "e", "m", "s">>,
                        FALSE, <<>>, Ids(pendingTheirs))>>
         ELSE <<>>)
        \o
        (IF Len(SeqFilter(ourItems, IsOverdue)) > 0
         THEN <<NewGoal(2, <<"D", "e", "l", "i", "v", "e", "r", " ", "o", "n", " ", "o", "u",
                             "r", " ", "o", "v", "e", "r", "d", "u", "e", " ", "c", "o", "m",
                             "m", "i", "t", "m", "e", "n", "t", "s">>,
                        TRUE, <<>>, <<>>)>>
         ELSE <<>>)

generateStakeholderGoals(ctx) ==
    LET profs == ctx.participants
        hasRole(r) == \E i \in DOMAIN profs : profs[i].role = r
    IN  (IF ~hasRole("economic-buyer") /\ Len(profs) >= 3
         THEN <<NewGoal(2, <<"G", "e", "t", " ", "i", "n", "t", "r", "o", "d", "u", "c", "t",
                             "i", "o", "n", " ", "t", "o", " ", "e", "c", "o", "n", "o", "m",
                             "i", "c", " ", "b", "u", "y", "e", "r">>,
                        TRUE, <<>>, <<>>)>>
         ELSE <<>>)
        \o
        (IF hasRole("blocker")
         THEN <<NewGoal(2, <<"A", "d", "d", "r", "e", "s", "s", " ", "c", "o", "n", "c", "e",
                             "r", "n", "s", " ", "o", "f", " ", "s", "k", "e", "p", "t", "i",
                             "c", "a", "l", " ", "s", "t", "a", "k", "e", "h", "o", "l", "d",
                             "e", "r", "s">>,
                        TRUE, <<>>, <<>>)>>
         ELSE <<>>)
        \o
        (IF hasRole("champion")
         THEN <<NewGoal(4, <<"E", "q", "u", "i", "p", " ", "c", "h", "a", "m", "p", "i", "o",
                             "n", " ", "w", "i", "t", "h", " ", "i", "n", "t", "e", "r", "n",
                             "a", "l", " ", "s", "e", "l", "l", "i", "n", "g", " ", "p", "o",
                             "i", "n", "t", "s">>,
                        TRUE, <<>>, <<>>)>>
         ELSE <<>>)

TITLE_KEY_LENGTH == 30
MAX_GOALS == 5

\* goal.title.toLowerCase().slice(0, 30)
TitleKey(goal) == slice(toLowerCase(goal.title), TITLE_KEY_LENGTH)

deduplicateGoalsKeepAll(gs) == gs

\* A goal is kept iff no earlier goal has its key.
deduplicateGoals(gs) ==
    LET F[i \in 0..Len(gs)] ==
            IF i = 0 THEN <<>>
            ELSE IF \E j \in 1..(i - 1) : TitleKey(gs[j]) = TitleKey(gs[i])
                 THEN F[i - 1]
                 ELSE Append(F[i - 1], gs[i])
    IN  F[Len(gs)]

ByPriority(a, b) == a.priority - b.priority < 0

\* ids goal-1, goal-2, ... in the order of generation
NumberInOrder(s) ==
    LET F[i \in 0..Len(s)] ==
            IF i = 0 THEN <<>> ELSE Append(F[i - 1], [s[i] EXCEPT !.id = i])
    IN  F[Len(s)]

TopGoals(sorted) == SubSeq(sorted, 1, Min(MAX_GOALS, Len(sorted)))

SortGoals(gs) == StableSort(gs, ByPriority)

\* The goals of the four generators, numbered as they are pushed
candidateGoals(ctx) ==
    NumberInOrder(generateStageGoals(ctx)
                  \o generateRiskGoals(ctx.analysis.risks)
                  \o generateActionItemGoals(ctx)
                  \o generateStakeholderGoals(ctx))

generateGoals(ctx) == TopGoals(SortGoals(deduplicateGoals(candidateGoals(ctx))))

(***************************************************************************)
(* Talking-Point Generator (talkingPointGenerator.ts).                     *)
(* A point keeps id, category, point text, priority and related goal id;   *)
(* the point text is its literal followed by the text it interpolates.     *)
(***************************************************************************)
NewPoint(category, point, priority, relatedGoalId) ==
    [ id |-> 0, category |-> category, point |-> point,
      priority |-> priority, relatedGoalId |-> relatedGoalId ]

\* account.dealStage?.toLowerCase() ?? ''
StageOrEmpty(account) ==
    IF account.dealStage = None THEN <<>> ELSE toLowerCase(account.dealStage[1])

generateOpeners(ctx) ==
    LET stg == StageOrEmpty(ctx.account)
        timeline == ctx.mergedData.timeline
    IN  (IF ctx.analysis.daysSinceLastContact < 14 /\ Len(timeline) > 0
         THEN <<NewPoint("opener",
                         <<"Reference last interaction: ">> \o timeline[Len(timeline)].title,
                         1, None)>>
         ELSE <<>>)
        \o
        (IF ctx.analysis.momentum = "accelerating"
         THEN <<NewPoint("opener", <<"Acknowledge positive momentum">>, 2, None)>>
         ELSE IF ctx.analysis.momentum \in {"stalling", "at-risk"}
         THEN <<NewPoint("opener", <<"Re-establish engagement">>, 1, None)>>
         ELSE <<>>)
        \o
        (IF includes(stg, <<"p", "o", "c">>) \/ includes(stg, <<"p", "i", "l", "o", "t">>)
         THEN <<NewPoint("opener", <<"POC progress check">>, 2, None)>>
         ELSE <<>>)

RECURSIVE GoalSupportPoints(_)
GoalSupportPoints(gs) ==
    IF gs = <<>> THEN <<>>
    ELSE LET goal == Head(gs)
         IN  (IF goal.priority = 1
              THEN <<NewPoint("goal-support", goal.title, 1, Some(goal.id))>>
              ELSE <<>>)
             \o
             (IF goal.suggestedApproach
              THEN <<NewPoint("goal-support", <<"Support: ">> \o goal.title,
                              IF goal.priority <= 2 THEN 2 ELSE 3, Some(goal.id))>>
              ELSE <<>>)
             \o GoalSupportPoints(Tail(gs))

\* context.goals.slice(0, 3)
generateGoalSupportPoints(ctx) ==
    GoalSupportPoints(SubSeq(ctx.goals, 1, Min(3, Len(ctx.goals))))

RECURSIVE RiskMitigationPoints(_)
RiskMitigationPoints(risks) ==
    IF risks = <<>> THEN <<>>
    ELSE LET risk == Head(risks)
         IN  (IF risk.severity = "high"
              THEN <<NewPoint("risk-mitigation",
                              <<"Address risk: ">> \o risk.description, 1, None)>>
              ELSE IF risk.severity = "medium"
              THEN <<NewPoint("risk-mitigation",
                              <<"Probe: ">> \o risk.description, 2, None)>>
              ELSE <<>>)
             \o RiskMitigationPoints(Tail(risks))

generateRiskMitigationPoints(ctx) == RiskMitigationPoints(ctx.analysis.risks)

\* profile.name || profile.email
NameOrEmail(profile) == IF profile.name # <<>> THEN profile.name ELSE profile.email

RECURSIVE StakeholderPoints(_)
StakeholderPoints(profs) ==
    IF profs = <<>> THEN <<>>
    ELSE LET profile == Head(profs)
             who == NameOrEmail(profile)
         IN  (IF profile.role = "champion"
              THEN <<NewPoint("stakeholder-specific",
                              <<"Strengthen champion relationship with ">> \o who, 2, None)>>
              ELSE <<>>)
             \o
             (IF profile.role = "blocker"
              THEN <<NewPoint("stakeholder-specific",
                              <<"Address ">> \o who \o <<"'s concerns directly">>, 1, None)>>
              ELSE <<>>)
             \o
             (IF profile.role = "economic-buyer"
              THEN <<NewPoint("stakeholder-specific",
                              <<"Emphasize ROI and business impact for ">> \o who, 1, None)>>
              ELSE <<>>)
             \o
             (IF profile.role = "technical-evaluator"
              THEN <<NewPoint("stakeholder-specific",
                              <<"Provide technical depth for ">> \o who, 2, None)>>
              ELSE <<>>)
             \o
             (IF Len(profile.whatTheyCareAbout) > 0
              THEN <<NewPoint("stakeholder-specific",
                              <<"Address ">> \o (IF profile.name # <<>> THEN profile.name
                                               ELSE <<"participant">>)
                                \o <<"'s priorities: ">>
                                \o SubSeq(profile.whatTheyCareAbout, 1,
                                          Min(2, Len(profile.whatTheyCareAbout))),
                              2, None)>>
              ELSE <<>>)
             \o StakeholderPoints(Tail(profs))

generateStakeholderPoints(ctx) == StakeholderPoints(ctx.participants)

generateActionFollowUpPoints(ctx) ==
    LET openItems == SeqFilter(ctx.mergedData.actionItems, IsOpen)
        overdueTheirs == SeqFilter(openItems, IsOverdueTheirs)
        overdueOurs == SeqFilter(openItems, IsOverdueOurs)
        pendingTheirs == LET T(i) == i.owner = "theirs" /\ i.status = "pending"
                         IN  SeqFilter(openItems, T)
    IN  (IF Len(overdueTheirs) > 0
         THEN <<NewPoint("action-follow-up",
                         <<"Follow up on: ", overdueTheirs[1].description>>, 1, None)>>
         ELSE <<>>)
        \o
        (IF Len(overdueOurs) > 0
         THEN <<NewPoint("action-follow-up",
                         <<"Acknowledge our overdue item: ", overdueOurs[1].description>>,
                         1, None)>>
         ELSE <<>>)
        \o
        (IF Len(pendingTheirs) > 0 /\ Len(overdueTheirs) = 0
         THEN <<NewPoint("action-follow-up",
                         <<"Check status on ">> \o NumStr(Len(pendingTheirs))
                             \o <<" pending item(s)">>,
                         3, None)>>
         ELSE <<>>)

generateValuePoints(ctx) ==
    LET stg == StageOrEmpty(ctx.account)
    IN  (IF includes(stg, <<"p", "o", "c">>) \/ includes(stg, <<"p", "i", "l", "o", "t">>) \/ includes(stg, <<"t", "r", "i", "a", "l">>)
         THEN <<NewPoint("value-proposition",
                         <<"Reinforce value demonstrated in evaluation">>, 2, None)>>
         ELSE <<>>)
        \o
        (IF ctx.analysis.momentum \in {"at-risk", "stalling"}
         THEN <<NewPoint("value-proposition",
                         <<"Re-emphasize core value proposition">>, 1, None)>>
         ELSE <<>>)
        \o
        (IF includes(stg, <<"n", "e", "g", "o", "t", "i", "a", "t", "i", "o", "n">>) \/ includes(stg, <<"p", "r", "o", "p", "o", "s", "a", "l">>) \/ includes(stg, <<"c", "o", "n", "t", "r", "a", "c", "t">>)
         THEN <<NewPoint("value-proposition",
                         <<"Quantify ROI for final decision">>, 2, None)>>
         ELSE <<>>)

generateNextStepsPoints(ctx) ==
    LET stg == StageOrEmpty(ctx.account)
        hasEconomicBuyer ==
            \E i \in DOMAIN ctx.participants : ctx.participants[i].role = "economic-buyer"
    IN  <<NewPoint("next-steps", <<"Propose specific next step with timeline">>, 2, None)>>
        \o
        (IF includes(stg, <<"d", "i", "s", "c", "o", "v", "e", "r", "y">>) \/ includes(stg, <<"q", "u", "a", "l", "i", "f", "i", "c", "a", "t", "i", "o", "n">>)
         THEN <<NewPoint("next-steps", <<"Propose technical deep-dive or demo">>, 2, None)>>
         ELSE <<>>)
        \o
        (IF (includes(stg, <<"p", "o", "c">>) \/ includes(stg, <<"p", "i", "l", "o", "t">>)) /\ ~hasEconomicBuyer
         THEN <<NewPoint("next-steps", <<"Request executive briefing">>, 1, None)>>
         ELSE <<>>)
        \o
        (IF includes(stg, <<"n", "e", "g", "o", "t", "i", "a", "t", "i", "o", "n">>) \/ includes(stg, <<"c", "o", "n", "t", "r", "a", "c", "t">>)
         THEN <<NewPoint("next-steps", <<"Propose implementation kickoff date">>, 1, None)>>
         ELSE <<>>)
        \o
        (IF ctx.analysis.daysSinceLastContact > 14
         THEN <<NewPoint("next-steps", <<"Establish regular touchpoint cadence">>, 2, None)>>
         ELSE <<>>)

SortPointsUnstable(ps) ==
    LET Later(a, b) == a.priority < b.priority \/ (a.priority = b.priority /\ a.id > b.id)
    IN  StableSort(ps, Later)

SortPoints(ps) == StableSort(ps, ByPriority)

\* ids tp-1, tp-2, ... in the order of generation
generateTalkingPoints(ctx) ==
    SortPoints(NumberInOrder(generateOpeners(ctx)
                             \o generateGoalSupportPoints(ctx)
                             \o generateRiskMitigationPoints(ctx)
                             \o generateStakeholderPoints(ctx)
                             \o generateActionFollowUpPoints(ctx)
                             \o generateValuePoints(ctx)
                             \o generateNextStepsPoints(ctx)))

(***************************************************************************)
(* Competitive Intelligence Extractor (competitiveIntel.ts). The profiles, *)
(* the risks, the landscape summary and the context excerpt of a mention   *)
(* are derived from the mentions and are not modelled.                     *)
(***************************************************************************)
Competitor(name, aliases) == [ name |-> name, aliases |-> aliases ]

\* Object.entries(KNOWN_COMPETITORS): the entries in the order written
KNOWN_COMPETITORS ==
    << Competitor("Salesforce", << <<"s", "a", "l", "e", "s", "f", "o", "r", "c", "e">>,
                                   <<"s", "f", "d", "c">>,
                                   <<"s", "a", "l", "e", "s", " ", "c", "l", "o", "u", "d">>,
                                   <<"s", "e", "r", "v", "i", "c", "e", " ", "c", "l", "o", "u", "d">> >>),
       Competitor("Microsoft", << <<"m", "i", "c", "r", "o", "s", "o", "f", "t">>,
                                  <<"m", "s", "f", "t">>,
                                  <<"d", "y", "n", "a", "m", "i", "c", "s">>,
                                  <<"a", "z", "u", "r", "e">>,
                                  <<"t", "e", "a", "m", "s">> >>),
       Competitor("Google", << <<"g", "o", "o", "g", "l", "e">>,
                               <<"g", "c", "p">>,
                               <<"g", "o", "o", "g", "l", "e", " ", "c", "l", "o", "u", "d">>,
                               <<"w", "o", "r", "k", "s", "p", "a", "c", "e">> >>),
       Competitor("AWS", << <<"a", "w", "s">>,
                            <<"a", "m", "a", "z", "o", "n", " ", "w", "e", "b", " ", "s", "e", "r", "v", "i", "c", "e", "s">>,
                            <<"a", "m", "a", "z", "o", "n">> >>),
       Competitor("Snowflake", << <<"s", "n", "o", "w", "f", "l", "a", "k", "e">> >>),
       Competitor("Databricks", << <<"d", "a", "t", "a", "b", "r", "i", "c", "k", "s">> >>),
       Competitor("HubSpot", << <<"h", "u", "b", "s", "p", "o", "t">> >>),
       Competitor("Zendesk", << <<"z", "e", "n", "d", "e", "s", "k">> >>),
       Competitor("ServiceNow", << <<"s", "e", "r", "v", "i", "c", "e", "n", "o", "w">>,
                                   <<"s", "e", "r", "v", "i", "c", "e", " ", "n", "o", "w">> >>),
       Competitor("Workday", << <<"w", "o", "r", "k", "d", "a", "y">> >>),
       Competitor("SAP", << <<"s", "a", "p">>,
                            <<"s", "/", "4", "h", "a", "n", "a">> >>),
       Competitor("Oracle", << <<"o", "r", "a", "c", "l", "e">>,
                               <<"o", "c", "i">> >>),
       Competitor("Slack", << <<"s", "l", "a", "c", "k">> >>),
       Competitor("Zoom", << <<"z", "o", "o", "m">> >>),
       Competitor("Datadog", << <<"d", "a", "t", "a", "d", "o", "g">> >>),
       Competitor("Splunk", << <<"s", "p", "l", "u", "n", "k">> >>),
       Competitor("MongoDB", << <<"m", "o", "n", "g", "o", "d", "b">>,
                                <<"m", "o", "n", "g", "o">> >>),
       Competitor("Elastic", << <<"e", "l", "a", "s", "t", "i", "c">>,
                                <<"e", "l", "a", "s", "t", "i", "c", "s", "e", "a", "r", "c", "h">> >>),
       Competitor("Confluent", << <<"c", "o", "n", "f", "l", "u", "e", "n", "t">>,
                                  <<"k", "a", "f", "k", "a">> >>),
       Competitor("HashiCorp", << <<"h", "a", "s", "h", "i", "c", "o", "r", "p">>,
                                  <<"t", "e", "r", "r", "a", "f", "o", "r", "m">>,
                                  <<"v", "a", "u", "l", "t">> >>) >>

COMPETITIVE_SIGNALS ==
    << <<"c", "o", "m", "p", "e", "t", "i", "t", "o", "r">>,
       <<"a", "l", "t", "e", "r", "n", "a", "t", "i", "v", "e">>,
       <<"a", "l", "s", "o", " ", "l", "o", "o", "k", "i", "n", "g", " ", "a", "t">>,
       <<"e", "v", "a", "l", "u", "a", "t", "i", "n", "g">>,
       <<"c", "o", "m", "p", "a", "r", "e", "d", " ", "t", "o">>,
       <<"v", "s">>,
       <<"v", "e", "r", "s", "u", "s">>,
       <<"i", "n", "s", "t", "e", "a", "d", " ", "o", "f">>,
       <<"s", "w", "i", "t", "c", "h", " ", "f", "r", "o", "m">>,
       <<"m", "i", "g", "r", "a", "t", "e", " ", "f", "r", "o", "m">>,
       <<"r", "e", "p", "l", "a", "c", "e">>,
       <<"b", "e", "n", "c", "h", "m", "a", "r", "k">>,
       <<"c", "o", "m", "p", "e", "t", "i", "t", "i", "v", "e">>,
       <<"o", "t", "h", "e", "r", " ", "v", "e", "n", "d", "o", "r", "s">>,
       <<"o", "t", "h", "e", "r", " ", "o", "p", "t", "i", "o", "n", "s">> >>

POSITIVE_FOR_COMPETITOR ==
    << <<"p", "r", "e", "f", "e", "r">>,
       <<"l", "i", "k", "e">>,
       <<"b", "e", "t", "t", "e", "r">>,
       <<"l", "o", "v", "e">>,
       <<"g", "r", "e", "a", "t", " ", "e", "x", "p", "e", "r", "i", "e", "n", "c", "e">>,
       <<"a", "l", "r", "e", "a", "d", "y", " ", "u", "s", "i", "n", "g">>,
       <<"h", "a", "p", "p", "y", " ", "w", "i", "t", "h">>,
       <<"s", "a", "t", "i", "s", "f", "i", "e", "d">> >>

NEGATIVE_FOR_COMPETITOR ==
    << <<"i", "s", "s", "u", "e">>,
       <<"p", "r", "o", "b", "l", "e", "m">>,
       <<"c", "h", "a", "l", "l", "e", "n", "g", "e">>,
       <<"f", "r", "u", "s", "t", "r", "a", "t", "e", "d">>,
       <<"e", "x", "p", "e", "n", "s", "i", "v", "e">>,
       <<"d", "i", "f", "f", "i", "c", "u", "l", "t">>,
       <<"c", "o", "m", "p", "l", "e", "x">>,
       <<"m", "i", "g", "r", "a", "t", "e", " ", "f", "r", "o", "m">>,
       <<"s", "w", "i", "t", "c", "h", " ", "f", "r", "o", "m">>,
       <<"m", "o", "v", "i", "n", "g", " ", "a", "w", "a", "y">>,
       <<"r", "e", "p", "l", "a", "c", "i", "n", "g">>,
       <<"l", "i", "m", "i", "t", "a", "t", "i", "o", "n", "s">> >>

SENTIMENT_WINDOW == 100

\* String.prototype.indexOf: the 0-based position of the first occurrence, or -1
indexOf(s, k) ==
    LET at == {i \in 1..(Len(s) - Len(k) + 1) : \A j \in DOMAIN k : s[i + j - 1] = k[j]}
    IN  IF at = {} THEN -1 ELSE (CHOOSE i \in at : \A j \in at : i <= j) - 1

\* String.prototype.slice(start, end), 0-based, end exclusive
sliceBetween(s, start, end) == SubSeq(s, start + 1, end)

\* Array.prototype.some over a list of phrases
someIncluded(phrases, text) == \E i \in DOMAIN phrases : includes(text, phrases[i])

analyzeCompetitorSentiment(text, competitorAlias) ==
    LET lowerText == toLowerCase(text)
        aliasIndex == indexOf(lowerText, toLowerCase(competitorAlias))
        contextStart == Max(0, aliasIndex - SENTIMENT_WINDOW)
        contextEnd == Min(Len(text), aliasIndex + Len(competitorAlias) + SENTIMENT_WINDOW)
        context == sliceBetween(lowerText, contextStart, contextEnd)
        hasPositive == someIncluded(POSITIVE_FOR_COMPETITOR, context)
        hasNegative == someIncluded(NEGATIVE_FOR_COMPETITOR, context)
    IN  IF aliasIndex = -1 THEN "neutral"
        ELSE IF hasPositive /\ ~hasNegative THEN "positive"
        ELSE IF hasNegative /\ ~hasPositive THEN "negative"
        ELSE "neutral"

\* [event.title, event.description ?? ''].join(' ').toLowerCase()
searchTextOf(event) == toLowerCase(event.title \o <<" ">> \o event.description)

MentionSource(event) ==
    IF event.type = "call" THEN "transcript"
    ELSE IF event.type = "meeting" THEN "calendar"
    ELSE "slack"

CompetitorMention(n, competitor, sentiment, event) ==
    [ id |-> <<"cm", n>>,
      competitor |-> competitor,
      sentiment |-> sentiment,
      source |-> MentionSource(event),
      sourceId |-> event.id,
      date |-> event.date ]

\* The first alias of the competitor that the text includes (the inner
\* loop stops at it)
FirstAlias(competitor, searchText) ==
    competitor.aliases[CHOOSE a \in DOMAIN competitor.aliases :
        /\ includes(searchText, toLowerCase(competitor.aliases[a]))
        /\ \A b \in 1..(a - 1) : ~includes(searchText, toLowerCase(competitor.aliases[b]))]

\* The outer loop visits every competitor; `break` leaves the loop over the
\* aliases of one competitor only.
extractMentionsFromEvent(event, startId) ==
    LET searchText == searchTextOf(event)
        Named(c) == \E a \in DOMAIN c.aliases : includes(searchText, toLowerCase(c.aliases[a]))
        named == SeqFilter(KNOWN_COMPETITORS, Named)
        known[i \in 0..Len(named)] ==
            IF i = 0 THEN <<>>
            ELSE Append(known[i - 1],
                        CompetitorMention(startId + i - 1, named[i].name,
                            analyzeCompetitorSentiment(searchText, FirstAlias(named[i], searchText)),
                            event))
        mentions == known[Len(named)]
        hasCompetitiveSignal ==
            \E i \in DOMAIN COMPETITIVE_SIGNALS :
                includes(searchText, toLowerCase(COMPETITIVE_SIGNALS[i]))
    IN  IF hasCompetitiveSignal /\ Len(mentions) = 0
        THEN << CompetitorMention(startId, "Unknown Competitor", "neutral", event) >>
        ELSE mentions

extractCompetitiveIntel(context) ==
    LET timeline == context.mergedData.timeline
        mentions[i \in 0..Len(timeline)] ==
            IF i = 0 THEN <<>>
            ELSE LET sofar == mentions[i - 1]
                 IN  sofar \o extractMentionsFromEvent(timeline[i], Len(sofar) + 1)
    IN  [ mentions |-> mentions[Len(timeline)] ]

(***************************************************************************)
(* Assembler (dossierAssembler.ts).                                        *)
(***************************************************************************)
\* analyzeAccount(mergedData): the assembler passes no options
NoOptions == [stageStartDate |-> None]

\* The Dossier view. Of a dossier the model keeps the meeting, the account
\* name, the two participant lists, the missing stakeholders, the top goals
\* and red flags, the talking points and (for the quick dossier) the
\* questions to ask; the sentences of the summary and the metadata are left
\* out.
ANTHROPIC_COM == <<"a", "n", "t", "h", "r", "o", "p", "i", "c", ".", "c", "o", "m">>

\* const internalDomains = ['runlayer.com', 'anthropic.com'] of the
\* assembler's own isInternalEmail
ASSEMBLER_INTERNAL_DOMAINS == << RUNLAYER_COM, ANTHROPIC_COM >>

\* email.split('@')[1]?.toLowerCase() ?? '': the text between the first "@"
\* and the next one (or the end), and '' when there is no "@"
secondSegment(email) ==
    LET ats == {i \in DOMAIN email : email[i] = "@"}
    IN  IF ats = {} THEN <<>>
        ELSE LET first == CHOOSE i \in ats : \A j \in ats : i <= j
                 rest == ats \ {first}
                 end == IF rest = {} THEN Len(email) + 1
                        ELSE CHOOSE i \in rest : \A j \in rest : i <= j
             IN  toLowerCase(SubSeq(email, first + 1, end - 1))

assemblerIsInternalEmail(email) ==
    \E i \in DOMAIN ASSEMBLER_INTERNAL_DOMAINS :
        secondSegment(email) = ASSEMBLER_INTERNAL_DOMAINS[i]

IsInternalAttendee(a) == assemblerIsInternalEmail(a.email)
IsExternalAttendee(a) == ~assemblerIsInternalEmail(a.email)

\* An attendee of a meeting; the name is optional
MeetingAttendee(email, name) == [ email |-> email, name |-> name ]

REQUIRED_ROLES ==
    << [ role |-> "economic-buyer", message |-> "Economic buyer not yet identified" ],
       [ role |-> "technical-evaluator", message |-> "Technical evaluator not yet engaged" ],
       [ role |-> "champion", message |-> "No clear champion identified" ] >>

identifyMissingStakeholders(profs) ==
    LET Missing(r) == ~\E i \in DOMAIN profs : profs[i].role = r.role
        MessageOf(r) == r.message
    IN  SeqMap(SeqFilter(REQUIRED_ROLES, Missing), MessageOf)

buildParticipantLists(attendees, profs) ==
    LET Known(a) == {i \in DOMAIN profs : profs[i].key = a.email}
        \* attendee.name ?? profile?.name ?? ''
        NameOf(a) == IF a.name # None THEN a.name[1]
                     ELSE IF Known(a) # {} THEN profs[CHOOSE i \in Known(a) : TRUE].name
                     ELSE <<>>
        InternalOf(a) == [ email |-> a.email, name |-> NameOf(a), role |-> "ae" ]
        ExternalOf(a) ==
            [ email |-> a.email,
              name |-> NameOf(a),
              role |-> IF Known(a) # {} THEN profs[CHOOSE i \in Known(a) : TRUE].role
                       ELSE "unknown",
              influence |-> IF Known(a) # {}
                            THEN profs[CHOOSE i \in Known(a) : TRUE].influence
                            ELSE "medium" ]
    IN  [ external |-> SeqMap(SeqFilter(attendees, IsExternalAttendee), ExternalOf),
          internal |-> SeqMap(SeqFilter(attendees, IsInternalAttendee), InternalOf),
          missing |-> identifyMissingStakeholders(profs) ]

TOP_GOALS == 3
RED_FLAGS == 3
TOP_POINTS == 7

IsTopPriority(x) == x.priority <= 2
TitleOf(goal) == goal.title
DescriptionOf(risk) == risk.description
PointOf(p) == p.point

buildExecutiveSummaryUrgentOnly(generatedGoals, analysed) ==
    LET IsUrgent(x) == x.priority <= 1
    IN  [ topGoals |-> SeqMap(slice(SeqFilter(generatedGoals, IsUrgent), TOP_GOALS), TitleOf),
          redFlags |-> SeqMap(slice(SeqFilter(analysed.risks, IsHigh), RED_FLAGS), DescriptionOf) ]

buildExecutiveSummary(generatedGoals, analysed) ==
    [ topGoals |-> SeqMap(slice(SeqFilter(generatedGoals, IsTopPriority), TOP_GOALS), TitleOf),
      redFlags |-> SeqMap(slice(SeqFilter(analysed.risks, IsHigh), RED_FLAGS), DescriptionOf) ]

\* The suggested phrasing appended to a point is not modelled
formatTalkingPointsForDossier(points) ==
    SeqMap(slice(SeqFilter(points, IsTopPriority), TOP_POINTS), PointOf)

createQuickDossier(meeting, accountName, accountDomain) ==
    LET ExternalOf(a) == [ email |-> a.email,
                           name |-> IF a.name # None THEN a.name[1] ELSE <<>>,
                           role |-> "unknown",
                           influence |-> "medium" ]
        InternalOf(a) == [ email |-> a.email,
                           name |-> IF a.name # None THEN a.name[1] ELSE <<>>,
                           role |-> "ae" ]
    IN  [ meeting |-> meeting,
          account |-> [ id |-> accountDomain, name |-> accountName, domain |-> accountDomain ],
          externalParticipants |-> SeqMap(SeqFilter(meeting.attendees, IsExternalAttendee), ExternalOf),
          internalParticipants |-> SeqMap(SeqFilter(meeting.attendees, IsInternalAttendee), InternalOf),
          missingStakeholders |-> <<>>,
          executiveSummary |-> [ topGoals |-> << "Understand their current status",
                                                 "Identify next steps" >>,
                                 redFlags |-> <<>> ],
          strategicInsights |-> [ questionsToAsk |-> << "What are your current priorities?",
                                                        "How can we help you succeed?" >> ],
          talkingPoints |-> << "Introduce yourself and your role",
                               "Understand their current challenges",
                               "Propose specific next steps" >> ]

validateDossierFirstOnly(built) ==
    LET issues == (IF built.meeting.title = <<>> THEN <<"Missing meeting title">> ELSE <<>>)
                  \o (IF built.account.name = <<>> THEN <<"Missing account name">> ELSE <<>>)
                  \o (IF Len(built.externalParticipants) = 0
                      THEN <<"No external participants identified">> ELSE <<>>)
                  \o (IF Len(built.executiveSummary.topGoals) = 0
                      THEN <<"No goals generated">> ELSE <<>>)
                  \o (IF Len(built.talkingPoints) = 0
                      THEN <<"No talking points generated">> ELSE <<>>)
    IN  [ isValid |-> Len(issues) = 0, issues |-> slice(issues, 1) ]

validateDossier(built) ==
    LET issues == (IF built.meeting.title = <<>> THEN <<"Missing meeting title">> ELSE <<>>)
                  \o (IF built.account.name = <<>> THEN <<"Missing account name">> ELSE <<>>)
                  \o (IF Len(built.externalParticipants) = 0
                      THEN <<"No external participants identified">> ELSE <<>>)
                  \o (IF Len(built.executiveSummary.topGoals) = 0
                      THEN <<"No goals generated">> ELSE <<>>)
                  \o (IF Len(built.talkingPoints) = 0
                      THEN <<"No talking points generated">> ELSE <<>>)
    IN  [ isValid |-> Len(issues) = 0, issues |-> issues ]

\* The dossier and the intermediate results of one run. A throw of the merge leaves
\* assembleDossier with no result: nothing in it catches.
(***************************************************************************)
(* The overdue pass (markOverdueItems). now is what new Date() returns at  *)
(* the call.                                                               *)
(***************************************************************************)
\* date < now on Date objects; false when date is the Invalid Date
DateBefore(date, now) == date # InvalidDate /\ date < now

markOneAnyStatus(item, now) ==
    IF item.dueDate = None THEN item
    ELSE IF DateBefore(item.dueDate[1], now)
    THEN [item EXCEPT !.status = "overdue",
                      !.daysOverdue = Some(daysBetween(item.dueDate[1], now))]
    ELSE item

\* The callback of items.map
markOne(item, now) ==
    IF item.status # "pending" THEN item
    ELSE IF item.dueDate = None THEN item
    ELSE IF DateBefore(item.dueDate[1], now)
    THEN [item EXCEPT !.status = "overdue",
                      !.daysOverdue = Some(daysBetween(item.dueDate[1], now))]
    ELSE item

markOverdueItems(list, now) == [i \in DOMAIN list |-> markOne(list[i], now)]

\* The last step of assembleDossier: the results of the stages as the
\* Dossier view
buildDossier(context, mergedData, analysed, profiled, generatedGoals, points) ==
    LET lists == buildParticipantLists(context.meeting.attendees, profiled)
    IN  [ meeting |-> context.meeting,
          account |-> [ id |-> mergedData.account.domain,
                        name |-> mergedData.account.name,
                        domain |-> mergedData.account.domain ],
          externalParticipants |-> lists.external,
          internalParticipants |-> lists.internal,
          missingStakeholders |-> lists.missing,
          executiveSummary |-> buildExecutiveSummary(generatedGoals, analysed),
          talkingPoints |-> formatTalkingPointsForDossier(points) ]

assembleDossierMarkingOverdue(context, srcs, rnd) ==
    LET raw == mergeAllData(srcs.fireflies, srcs.slack, srcs.calendar,
                            [ accountName |-> context.accountName,
                              accountDomain |-> context.accountDomain ],
                            rnd)
        mergedData == IF raw.threw THEN raw
                      ELSE [raw EXCEPT !.actionItems = markOverdueItems(@, Now)]
        analysed == analyzeAccount(mergedData, NoOptions)
        profiled == profileParticipants(mergedData.participants)
        goalContext == [ account |-> mergedData.account,
                         analysis |-> analysed,
                         participants |-> profiled,
                         mergedData |-> mergedData ]
        generatedGoals == generateGoals(goalContext)
        talkingPointContext == [ account |-> mergedData.account,
                                 analysis |-> analysed,
                                 participants |-> profiled,
                                 mergedData |-> mergedData,
                                 goals |-> generatedGoals ]
        points == generateTalkingPoints(talkingPointContext)
    IN  IF mergedData.threw THEN [ threw |-> TRUE ]
        ELSE [ threw |-> FALSE,
               mergedData |-> mergedData,
               analysis |-> analysed,
               profiles |-> profiled,
               goals |-> generatedGoals,
               talkingPoints |-> points,
               competitiveIntel |-> extractCompetitiveIntel(
                                        [ mergedData |-> mergedData,
                                          accountName |-> context.accountName,
                                          accountDomain |-> context.accountDomain ]),
               dossier |-> buildDossier(context, mergedData, analysed, profiled,
                                        generatedGoals, points) ]

assembleDossierProfilingFirst(context, srcs, rnd) ==
    LET mergedData == mergeAllData(srcs.fireflies, srcs.slack, srcs.calendar,
                                   [ accountName |-> context.accountName,
                                     accountDomain |-> context.accountDomain ],
                                   rnd)
        profiled == profileParticipants(mergedData.participants)
        analysed == analyzeAccount([mergedData EXCEPT !.participants = profiled], NoOptions)
        goalContext == [ account |-> mergedData.account,
                         analysis |-> analysed,
                         participants |-> profiled,
                         mergedData |-> mergedData ]
        generatedGoals == generateGoals(goalContext)
        talkingPointContext == [ account |-> mergedData.account,
                                 analysis |-> analysed,
                                 participants |-> profiled,
                                 mergedData |-> mergedData,
                                 goals |-> generatedGoals ]
        points == generateTalkingPoints(talkingPointContext)
    IN  IF mergedData.threw THEN [ threw |-> TRUE ]
        ELSE [ threw |-> FALSE,
               mergedData |-> mergedData,
               analysis |-> analysed,
               profiles |-> profiled,
               goals |-> generatedGoals,
               talkingPoints |-> points,
               competitiveIntel |-> extractCompetitiveIntel(
                                        [ mergedData |-> mergedData,
                                          accountName |-> context.accountName,
                                          accountDomain |-> context.accountDomain ]),
               dossier |-> buildDossier(context, mergedData, analysed, profiled,
                                        generatedGoals, points) ]

assembleDossier(context, srcs, rnd) ==
    LET mergedData == mergeAllData(srcs.fireflies, srcs.slack, srcs.calendar,
                                   [ accountName |-> context.accountName,
                                     accountDomain |-> context.accountDomain ],
                                   rnd)
        analysed == analyzeAccount(mergedData, NoOptions)
        profiled == profileParticipants(mergedData.participants)
        goalContext == [ account |-> mergedData.account,
                         analysis |-> analysed,
                         participants |-> profiled,
                         mergedData |-> mergedData ]
        generatedGoals == generateGoals(goalContext)
        talkingPointContext == [ account |-> mergedData.account,
                                 analysis |-> analysed,
                                 participants |-> profiled,
                                 mergedData |-> mergedData,
                                 goals |-> generatedGoals ]
        points == generateTalkingPoints(talkingPointContext)
    IN  IF mergedData.threw THEN [ threw |-> TRUE ]
        ELSE [ threw |-> FALSE,
               mergedData |-> mergedData,
               analysis |-> analysed,
               profiles |-> profiled,
               goals |-> generatedGoals,
               talkingPoints |-> points,
               competitiveIntel |-> extractCompetitiveIntel(
                                        [ mergedData |-> mergedData,
                                          accountName |-> context.accountName,
                                          accountDomain |-> context.accountDomain ]),
               dossier |-> buildDossier(context, mergedData, analysed, profiled,
                                        generatedGoals, points) ]

(***************************************************************************)
(* Inputs of the pipeline: call records (Fireflies), chat messages (Slack) *)
(* and calendar events. Three families: one varies the dates and the chat *)
(* timestamps, one the addresses and their letter case, one the assignees. *)
(***************************************************************************)
AccountName == <<"T", "o", "y", "o", "t", "a">>

\* The meeting of the assembler tests: one attendee of the account, one of ours
CheckInTitle == <<"T", "o", "y", "o", "t", "a", " ", "P", "O", "C", " ", "C", "h", "e", "c",
                  "k", "-", "i", "n">>
ToyotaUserName == <<"T", "o", "y", "o", "t", "a", " ", "U", "s", "e", "r">>

Meeting(title, attendees) == [ id |-> "meeting-1", title |-> title, attendees |-> attendees ]

Context == [ accountName |-> AccountName, accountDomain |-> TOYOTA_COM,
             meeting |-> Meeting(CheckInTitle,
                                 << MeetingAttendee(UserEmail, Some(ToyotaUserName)),
                                    MeetingAttendee(AndyEmail, Some(AndyName)) >>) ]

SyncTitle == <<"W", "e", "e", "k", "l", "y", " ", "s", "y", "n", "c">>
ReviewTitle == <<"S", "e", "c", "u", "r", "i", "t", "y", " ", "r", "e", "v", "i", "e", "w">>
ExcitedSummary == <<"T", "e", "a", "m", " ", "i", "s", " ", "e", "x", "c", "i", "t", "e", "d", " ", "a", "b", "o", "u", "t", " ", "t", "h", "e", " ", "r", "o", "l", "l", "o", "u", "t">>
UserName == <<"U", "s", "e", "r">>

Transcript(n, date, participants, summary, items) ==
    [ id |-> <<"t">> \o NumStr(n),
      title |-> SyncTitle,
      date |-> date,
      participants |-> participants,
      summary |-> summary,
      actionItems |-> items ]

ActionItemOf(assignee) == [ text |-> "Send security docs", assignee |-> assignee, dueDate |-> None ]

CalendarEvent(n, start, attendees) ==
    [ id |-> <<"e">> \o NumStr(n), summary |-> ReviewTitle, start |-> start, attendees |-> attendees ]

Attendee(email, displayName) == [ email |-> email, displayName |-> displayName ]

TranscriptDates == {Now - 1, Now - 80}
SlackStamps == {Stamp(Now - 4), Stamp(Now - 3), GarbageStamp}
CalendarStarts == {Now - 2, Now - 100}

DatedSources ==
    { [ fireflies |-> [ transcripts |->
            [i \in DOMAIN ds |-> Transcript(i, ds[i], <<UserEmail, AndyEmail>>, <<>>, <<>>)] ],
        slack |-> [ messages |-> [i \in DOMAIN ms |-> [ timestamp |-> ms[i] ]] ],
        calendar |-> [ events |->
            [i \in DOMAIN cs |-> CalendarEvent(i, cs[i],
                <<Attendee(UserEmail, UserName), Attendee(AndyEmail, AndyName)>>)] ] ] :
      ds \in SeqsUpTo(TranscriptDates, MaxTranscripts),
      ms \in SeqsUpTo(SlackStamps, MaxMessages),
      cs \in SeqsUpTo(CalendarStarts, MaxCalendarEvents) }

Addresses == {UserEmail, UserEmailCaps, AndyEmail, AndyEmailCaps}
Assignees == {<<>>, UserEmail, AndyEmail, AndyEmailCaps, AndyName}
AttendeeLists == { <<Attendee(UserEmail, UserName)>>,
                   <<Attendee(UserEmailCaps, <<>>)>>,
                   <<Attendee(UserEmail, <<>>), Attendee(AndyEmailCaps, AndyName)>> }

AddressedSources ==
    { [ fireflies |-> [ transcripts |-> << Transcript(1, Now - 4, ps, sm, <<>>) >> ],
        slack |-> [ messages |-> <<>> ],
        calendar |-> [ events |-> [i \in DOMAIN cs |-> CalendarEvent(i, Now - 2, cs[i])] ] ] :
      ps \in SeqsUpTo(Addresses, MaxAddresses),
      sm \in {<<>>, ExcitedSummary},
      cs \in SeqsUpTo(AttendeeLists, MaxCalendarEvents) }

AssignedSources ==
    { [ fireflies |-> [ transcripts |->
            << Transcript(1, Now - 4, <<UserEmail, AndyEmail>>, <<>>,
                          [i \in DOMAIN as |-> ActionItemOf(as[i])]) >> ],
        slack |-> [ messages |-> <<>> ],
        calendar |-> [ events |-> <<>> ] ] :
      as \in SeqsUpTo(Assignees, MaxActionItems) }

\* Action items with a due date (none, past, future, unparsable): the first
\* assigned to the customer, the second to us
MaxItems == 2
DueStamps == { None, Some(Stamp(Now - 20)), Some(Stamp(Now + 1)), Some(GarbageStamp) }

DueSources ==
    { [ fireflies |-> [ transcripts |->
            << Transcript(1, Now - 40, <<UserEmail, AndyEmail>>, <<>>,
                          [i \in DOMAIN ds |->
                              [ActionItemOf(IF i = 1 THEN UserEmail ELSE AndyEmail)
                                   EXCEPT !.dueDate = ds[i]]]) >> ],
        slack |-> [ messages |-> <<>> ],
        calendar |-> [ events |-> <<>> ] ] :
      ds \in SeqsUpTo(DueStamps, MaxItems) \ {<<>>} }

\* A call attended by n people of the account, whose summary may carry a
\* keyword of a role
MaxCrowd == 3
BudgetSummary == <<"N", "e", "e", "d", "s", " ", "b", "u", "d", "g", "e", "t", " ", "a", "p",
                   "p", "r", "o", "v", "a", "l">>
CrowdAddress(n) == <<"p">> \o NumStr(n) \o <<"@">> \o TOYOTA_COM

CrowdSources ==
    { [ fireflies |-> [ transcripts |->
            << Transcript(1, Now - 4, [i \in 1..n |-> CrowdAddress(i)], sm, <<>>) >> ],
        slack |-> [ messages |-> <<>> ],
        calendar |-> [ events |-> <<>> ] ] :
      n \in 0..MaxCrowd,
      sm \in {<<>>, ExcitedSummary, BudgetSummary} }

RECURSIVE CountActionItems(_)
CountActionItems(transcripts) ==
    IF transcripts = <<>> THEN 0
    ELSE Len(Head(transcripts).actionItems) + CountActionItems(Tail(transcripts))

\* Math.random() draws, one per action item a run creates
RandomStreams(srcs) == [1..CountActionItems(srcs.fireflies.transcripts) -> 1..MaxRandom]

(***************************************************************************)
(* CircuitBreaker. The breaker is the record of its three private fields;  *)
(* Date.now() is passed as now.                                            *)
(***************************************************************************)
DEFAULT_FAILURE_THRESHOLD == 5
DEFAULT_RESET_TIME_MS == 60000

Breaker(st, count, last) == [ state |-> st, failures |-> count, lastFailureTime |-> last ]

\* The first statement of execute: an open breaker whose reset time has
\* passed becomes half-open; an open breaker before that rejects the call
\* with CircuitOpenError; any other breaker admits the call as it is
executeEntry(cb, now, resetTime) ==
    IF cb.state = "open"
    THEN LET timeSinceFailure == now - cb.lastFailureTime
         IN  IF timeSinceFailure >= resetTime
             THEN [ cb |-> [cb EXCEPT !.state = "half-open"], admitted |-> TRUE ]
             ELSE [ cb |-> cb, admitted |-> FALSE ]
    ELSE [ cb |-> cb, admitted |-> TRUE ]

reset(cb) == Breaker("closed", 0, 0)

onSuccess(cb) == [cb EXCEPT !.state = "closed", !.failures = 0]

onFailureAboveThreshold(cb, now, threshold) ==
    LET count == cb.failures + 1
    IN  Breaker(IF cb.state = "half-open" THEN "open"
                ELSE IF count > threshold THEN "open"
                ELSE cb.state,
                count, now)

onFailure(cb, now, threshold) ==
    LET count == cb.failures + 1
    IN  Breaker(IF cb.state = "half-open" THEN "open"
                ELSE IF count >= threshold THEN "open"
                ELSE cb.state,
                count, now)

\* The operations in flight, counted by how their call found the breaker:
\* closed, open with the reset time passed (the trial), or half-open
OpTags == {"closed", "trial", "half-open"}
NoneInFlight == [t \in OpTags |-> 0]

(***************************************************************************)
(* The pipeline as a state machine: the sources are given, and each run of *)
(* assembleDossier on them leaves its result; the result of the run before *)
(* is kept beside it.                                                      *)
(***************************************************************************)
StagesIdle ==
    /\ data = None
    /\ options = None
    /\ analysis = None
    /\ profiles = None
    /\ goals = None
    /\ talkingPoints = None
    /\ competitiveIntel = None
    /\ stage = "idle"

DossierIdle ==
    /\ dossier = None
    /\ validation = None
    /\ origin = "none"

OverdueIdle ==
    /\ itemList = None
    /\ marked = <<>>

\* A breaker as its constructor leaves it, with the default options
BreakerIdle ==
    /\ state = "closed"
    /\ failures = 0
    /\ lastFailureTime = 0
    /\ failureThreshold = DEFAULT_FAILURE_THRESHOLD
    /\ resetTimeMs = DEFAULT_RESET_TIME_MS
    /\ inFlight = NoneInFlight
    /\ outcomes = <<>>

\* No participant handed to the profiler
ProfileIdle ==
    /\ candidate = None
    /\ enriched = None

\* No call of executeWithRetry
RetryIdle ==
    /\ retryConfig = None
    /\ attempt = 0
    /\ invocations = <<>>
    /\ currentDelay = 0
    /\ retried = <<>>
    /\ lastError = None
    /\ retryPc = "idle"
    /\ retryResult = None

\* A Scheduler as its constructor leaves it, with the default options
SchedulerIdle ==
    /\ jobs = <<>>
    /\ isRunning = FALSE
    /\ stats = [ totalJobs |-> 0, runningJobs |-> 0, successfulRuns |-> 0, failedRuns |-> 0 ]
    /\ runOnInit = FALSE
    /\ executions = <<>>

UtilityIdle ==
    /\ ProfileIdle
    /\ RetryIdle
    /\ SchedulerIdle

OthersIdle ==
    /\ OverdueIdle
    /\ clock = Now
    /\ BreakerIdle
    /\ UtilityIdle

Init ==
    /\ sources \in DatedSources \cup AddressedSources \cup AssignedSources \cup DueSources
                     \cup CrowdSources
    /\ result = None
    /\ previous = None
    /\ runs = 0
    /\ StagesIdle
    /\ DossierIdle
    /\ OthersIdle

AssembleDossier ==
    /\ runs < MaxRuns
    /\ \E rnd \in RandomStreams(sources) :
          result' = Some(assembleDossier(Context, sources, rnd))
    /\ previous' = result
    /\ runs' = runs + 1
    /\ UNCHANGED <<sources, data, options, analysis, profiles, goals, talkingPoints,
                   competitiveIntel, stage>>
    /\ UNCHANGED <<dossierVars, overdueVars, clock, breakerVars, utilityVars>>

Next == AssembleDossier

Spec == Init /\ [][Next]_vars

(***************************************************************************)
(* The stages taken one at a time on a merged bundle: analyzeAccount,      *)
(* profileParticipants, generateGoals and generateTalkingPoints accept any *)
(* bundle and any options, not only those the assembler hands them.        *)
(***************************************************************************)
ParticipantOf(n, role) ==
    [NewParticipant(<<"p">> \o NumStr(n) \o <<"@">> \o TOYOTA_COM, <<>>) EXCEPT !.role = role]

\* n registry entries, the first of the given role
ParticipantsOf(n, role) ==
    [i \in 1..n |-> ParticipantOf(i, IF i = 1 THEN role ELSE "unknown")]

TimelineEventOf(type, date) ==
    [ id |-> <<"ev", date>>, date |-> date, type |-> type, title |-> SyncTitle,
      description |-> <<>>, participants |-> <<>> ]

ActionItemRecord(n, owner, status) ==
    [ id |-> <<"ff-ai", "t1", n>>,
      description |-> "Send security docs",
      owner |-> owner,
      assignee |-> <<>>,
      dueDate |-> Some(Now - 20),
      createdDate |-> Now - 40,
      status |-> status,
      source |-> SyncTitle,
      daysOverdue |-> IF status = "overdue" THEN Some(daysAgo(Now - 20)) ELSE None ]

\* o overdue items of ours, t overdue items of theirs, p pending items of theirs
ActionItemsOf(o, t, p) ==
    [i \in 1..(o + t + p) |->
        IF i <= o THEN ActionItemRecord(i, "ours", "overdue")
        ELSE IF i <= o + t THEN ActionItemRecord(i, "theirs", "overdue")
        ELSE ActionItemRecord(i, "theirs", "pending")]

\* The bundle mergeAllData leaves for these parts (the timeline is sorted)
BundleOf(participants, timeline, actionItems, dealStage) ==
    LET bare == [EmptyMergedData(Context) EXCEPT
                    !.participants = participants,
                    !.timeline = timeline,
                    !.actionItems = actionItems,
                    !.account.dealStage = dealStage]
    IN  computeAccountMetrics(bare)

Roles == {"unknown", "champion", "economic-buyer", "blocker", "technical-evaluator"}

TimelineEvents == { TimelineEventOf("call", Now - 1), TimelineEventOf("call", Now - 10),
                    TimelineEventOf("meeting", Now - 24), TimelineEventOf("call", Now - 40),
                    TimelineEventOf("call", Now - 70) }

SortedTimelines ==
    { tl \in SeqsUpTo(TimelineEvents, MaxEvents) :
        \A i \in 1..(Len(tl) - 1) : tl[i].date <= tl[i + 1].date }

DealStages == { None, Some(<<"P", "O", "C">>), Some(<<"D", "i", "s", "c", "o", "v", "e", "r", "y">>), Some(<<"N", "e", "g", "o", "t", "i", "a", "t", "i", "o", "n">>) }

\* Bundles that vary what the momentum score reads
MomentumBundles ==
    { [ data |-> BundleOf(ParticipantsOf(n, "unknown"), tl, ActionItemsOf(o, t, 0), None),
        options |-> NoOptions ] :
      n \in 0..MaxParticipants, tl \in SortedTimelines,
      o \in 0..MaxOverdue, t \in 0..MaxOverdue }

\* opts.stageStartDate: not given, 40 days ago, 70 days ago
StageStartDates == { None, Some(Now - 80), Some(Now - 140) }

\* Bundles that vary what the goals and the talking points read
GoalBundles ==
    { [ data |-> BundleOf(ParticipantsOf(x[1], x[2]), x[3], ActionItemsOf(x[4], x[5], x[6]), x[7]),
        options |-> [ stageStartDate |-> x[8] ] ] :
      x \in (0..MaxProfiled) \X Roles
            \X { <<>>, <<TimelineEventOf("call", Now - 1)>>, <<TimelineEventOf("call", Now - 40)>> }
            \X (0..1) \X (0..1) \X (0..1)
            \X DealStages \X StageStartDates }

NoSources == [ fireflies |-> [ transcripts |-> <<>> ],
               slack |-> [ messages |-> <<>> ],
               calendar |-> [ events |-> <<>> ] ]

\* What the events of a timeline say (title and description are searched
\* for competitors)
IntelTexts == { <<>>,
                <<"M", "o", "v", "i", "n", "g", " ", "f", "r", "o", "m", " ", "S", "a", "l",
                  "e", "s", "f", "o", "r", "c", "e", " ", "t", "o", " ", "H", "u", "b", "S", "p",
                  "o", "t">>,
                <<"E", "v", "a", "l", "u", "a", "t", "i", "n", "g", " ", "o", "t", "h", "e",
                  "r", " ", "o", "p", "t", "i", "o", "n", "s">>,
                <<"H", "a", "p", "p", "y", " ", "w", "i", "t", "h", " ", "s", "f", "d", "c",
                  " ", "s", "a", "l", "e", "s", " ", "c", "l", "o", "u", "d">> }

\* Bundles that vary what the competitive intelligence reads
IntelBundles ==
    { [ data |-> BundleOf(ParticipantsOf(1, "unknown"),
                          [i \in DOMAIN ds |->
                              [TimelineEventOf("call", Now - 10 + i) EXCEPT !.description = ds[i]]],
                          <<>>, None),
        options |-> NoOptions ] :
      ds \in SeqsUpTo(IntelTexts, MaxEvents) }

\* Raw records handed to the merge before the stages
RawSources == { s \in DatedSources : Len(s.slack.messages) <= 1 } \cup AssignedSources

InitStages ==
    /\ result = None
    /\ previous = None
    /\ runs = 0
    /\ \/ /\ sources = NoSources
          /\ \E b \in MomentumBundles \cup GoalBundles \cup IntelBundles :
                /\ data = b.data
                /\ options = b.options
          /\ stage = "merged"
       \/ /\ sources \in RawSources
          /\ data = None
          /\ options = NoOptions
          /\ stage = "raw"
    /\ analysis = None
    /\ profiles = None
    /\ goals = None
    /\ talkingPoints = None
    /\ competitiveIntel = None
    /\ DossierIdle
    /\ OthersIdle

\* mergeAllData reads the three collections and builds a bundle of its own;
\* a throw leaves no bundle.
MergeAllData ==
    /\ stage = "raw"
    /\ \E rnd \in RandomStreams(sources) :
          LET merged == mergeAllData(sources.fireflies, sources.slack, sources.calendar,
                                     [ accountName |-> Context.accountName,
                                       accountDomain |-> Context.accountDomain ], rnd)
          IN  IF merged.threw
              THEN data' = data /\ stage' = "failed"
              ELSE data' = merged /\ stage' = "merged"
    /\ UNCHANGED <<sources, result, previous, runs, options, analysis, profiles, goals,
                   talkingPoints, competitiveIntel>>
    /\ UNCHANGED <<dossierVars, overdueVars, clock, breakerVars, utilityVars>>

\* const sorted = [...timeline].sort(...) in calculateDaysSinceLastContact:
\* the array that is sorted is a copy; this is the caller's array
\* after the call.
timelineSortedInPlace(timeline) == StableSort(timeline, NewerFirst)

timelineAfterLastContact(timeline) == timeline

AnalyzeAccount ==
    /\ stage = "merged"
    /\ analysis' = analyzeAccount(data, options)
    /\ data' = [data EXCEPT !.timeline = timelineAfterLastContact(data.timeline),
                            !.account.timeline = timelineAfterLastContact(data.timeline)]
    /\ stage' = "analyzed"
    /\ UNCHANGED <<sources, result, previous, runs, options, profiles, goals, talkingPoints,
                   competitiveIntel>>
    /\ UNCHANGED <<dossierVars, overdueVars, clock, breakerVars, utilityVars>>

ProfileParticipants ==
    /\ stage = "analyzed"
    /\ profiles' = profileParticipants(data.participants)
    /\ stage' = "profiled"
    /\ UNCHANGED <<sources, result, previous, runs, data, options, analysis, goals, talkingPoints,
                   competitiveIntel>>
    /\ UNCHANGED <<dossierVars, overdueVars, clock, breakerVars, utilityVars>>

GenerateGoals ==
    /\ stage = "profiled"
    /\ goals' = generateGoals([ account |-> data.account,
                                analysis |-> analysis,
                                participants |-> profiles,
                                mergedData |-> data ])
    /\ stage' = "goals"
    /\ UNCHANGED <<sources, result, previous, runs, data, options, analysis, profiles,
                   talkingPoints, competitiveIntel>>
    /\ UNCHANGED <<dossierVars, overdueVars, clock, breakerVars, utilityVars>>

GenerateTalkingPoints ==
    /\ stage = "goals"
    /\ talkingPoints' = generateTalkingPoints([ account |-> data.account,
                                                analysis |-> analysis,
                                                participants |-> profiles,
                                                mergedData |-> data,
                                                goals |-> goals ])
    /\ stage' = "done"
    /\ UNCHANGED <<sources, result, previous, runs, data, options, analysis, profiles, goals,
                   competitiveIntel>>
    /\ UNCHANGED <<dossierVars, overdueVars, clock, breakerVars, utilityVars>>

ExtractCompetitiveIntel ==
    /\ stage = "done"
    /\ competitiveIntel' = extractCompetitiveIntel([ mergedData |-> data,
                                                     accountName |-> Context.accountName,
                                                     accountDomain |-> Context.accountDomain ])
    /\ stage' = "intel"
    /\ UNCHANGED <<sources, result, previous, runs, data, options, analysis, profiles, goals,
                   talkingPoints>>
    /\ UNCHANGED <<dossierVars, overdueVars, clock, breakerVars, utilityVars>>

\* The assembler maps the results of the stages into the Dossier
BuildDossier ==
    /\ stage = "intel"
    /\ dossier' = Some(buildDossier(Context, data, analysis, profiles, goals, talkingPoints))
    /\ origin' = "assembled"
    /\ stage' = "built"
    /\ UNCHANGED <<sources, result, previous, runs, data, options, analysis, profiles, goals,
                   talkingPoints, competitiveIntel, validation>>
    /\ UNCHANGED <<overdueVars, clock, breakerVars, utilityVars>>

NextStages ==
    \/ MergeAllData
    \/ AnalyzeAccount
    \/ ProfileParticipants
    \/ GenerateGoals
    \/ GenerateTalkingPoints
    \/ ExtractCompetitiveIntel
    \/ BuildDossier

SpecStages == InitStages /\ [][NextStages]_vars

(***************************************************************************)
(* The dossier and its validator: a dossier comes from the quick           *)
(* constructor, from a run of the assembler, or from the caller, and       *)
(* validateDossier is applied to it.                                       *)
(***************************************************************************)
MaxAttendees == 2

AnthropicEmail == <<"k", "i", "m", "@", "a", "n", "t", "h", "r", "o", "p", "i", "c", ".", "c",
                    "o", "m">>
AnySourceEmail == <<"l", "e", "e", "@", "a", "n", "y", "s", "o", "u", "r", "c", "e", "h", "q",
                    ".", "c", "o", "m">>

MeetingAttendees == { MeetingAttendee(UserEmail, Some(ToyotaUserName)),
                      MeetingAttendee(AndyEmail, None),
                      MeetingAttendee(AnthropicEmail, None),
                      MeetingAttendee(AnySourceEmail, None) }

Meetings == { Meeting(title, attendees) :
                title \in {<<>>, CheckInTitle},
                attendees \in SeqsUpTo(MeetingAttendees, MaxAttendees) }

AccountNames == {<<>>, AccountName}

DossierSources == {NoSources} \cup AssignedSources

\* Dossiers a caller changed after construction, as the validator tests do
GivenDossiers ==
    { [createQuickDossier(m, name, TOYOTA_COM) EXCEPT
          !.executiveSummary.topGoals = IF x[1] THEN @ ELSE <<>>,
          !.talkingPoints = IF x[2] THEN @ ELSE <<>>] :
      m \in Meetings, name \in AccountNames,
      x \in {<<TRUE, FALSE>>, <<FALSE, TRUE>>, <<FALSE, FALSE>>} }

InitDossier ==
    /\ sources = NoSources
    /\ result = None
    /\ previous = None
    /\ runs = 0
    /\ StagesIdle
    /\ DossierIdle
    /\ OthersIdle

CreateQuickDossier ==
    /\ origin = "none"
    /\ \E m \in Meetings, name \in AccountNames :
          dossier' = Some(createQuickDossier(m, name, TOYOTA_COM))
    /\ origin' = "quick"
    /\ UNCHANGED <<pipelineVars, stageVars, validation>>
    /\ UNCHANGED <<overdueVars, clock, breakerVars, utilityVars>>

AssembleForMeeting ==
    /\ origin = "none"
    /\ \E m \in Meetings, name \in AccountNames, srcs \in DossierSources :
          \E rnd \in RandomStreams(srcs) :
              /\ sources' = srcs
              /\ result' = Some(assembleDossier([ accountName |-> name,
                                                  accountDomain |-> TOYOTA_COM,
                                                  meeting |-> m ], srcs, rnd))
    /\ IF result'[1].threw
       THEN dossier' = None /\ origin' = "failed"
       ELSE dossier' = Some(result'[1].dossier) /\ origin' = "assembled"
    /\ previous' = result
    /\ runs' = runs + 1
    /\ UNCHANGED <<stageVars, validation>>
    /\ UNCHANGED <<overdueVars, clock, breakerVars, utilityVars>>

ReceiveDossier ==
    /\ origin = "none"
    /\ \E d \in GivenDossiers : dossier' = Some(d)
    /\ origin' = "given"
    /\ UNCHANGED <<pipelineVars, stageVars, validation>>
    /\ UNCHANGED <<overdueVars, clock, breakerVars, utilityVars>>

\* validateDossier reads the dossier and returns a new pair
ValidateDossier ==
    /\ dossier # None
    /\ validation = None
    /\ validation' = Some(validateDossier(dossier[1]))
    /\ UNCHANGED <<pipelineVars, stageVars, dossier, origin>>
    /\ UNCHANGED <<overdueVars, clock, breakerVars, utilityVars>>

NextDossier ==
    \/ CreateQuickDossier
    \/ AssembleForMeeting
    \/ ReceiveDossier
    \/ ValidateDossier

SpecDossier == InitDossier /\ [][NextDossier]_vars

(***************************************************************************)
(* The overdue pass as a state machine: a list of action items, given by   *)
(* the caller or taken from a merged bundle, is handed to                  *)
(* markOverdueItems, and the list a pass returns is handed to the next     *)
(* pass; the clock advances between the calls.                             *)
(***************************************************************************)

MaxPasses == 2
MaxTicks == 3

Statuses == {"pending", "completed", "overdue"}
DueDates == { None, Some(Now - 20), Some(Now + 1), Some(InvalidDate) }

GivenItems ==
    { [i \in DOMAIN ks |->
          [ActionItemRecord(i, "ours", ks[i][1]) EXCEPT !.dueDate = ks[i][2]]] :
      ks \in SeqsUpTo(Statuses \X DueDates, MaxItems) }



InitOverdue ==
    /\ result = None
    /\ previous = None
    /\ runs = 0
    /\ \/ /\ sources = NoSources
          /\ data = None
          /\ options = None
          /\ stage = "idle"
          /\ itemList \in {Some(list) : list \in GivenItems}
       \/ /\ sources \in DueSources
          /\ data = None
          /\ options = NoOptions
          /\ stage = "raw"
          /\ itemList = None
    /\ analysis = None
    /\ profiles = None
    /\ goals = None
    /\ talkingPoints = None
    /\ competitiveIntel = None
    /\ DossierIdle
    /\ marked = <<>>
    /\ clock = Now
    /\ BreakerIdle
    /\ UtilityIdle

\* The caller takes the action items of the merged bundle
TakeMergedItems ==
    /\ stage = "merged"
    /\ itemList = None
    /\ itemList' = Some(data.actionItems)
    /\ UNCHANGED <<pipelineVars, stageVars, dossierVars, marked, clock, breakerVars, utilityVars>>

\* The list the next pass is given
PassInput == IF marked = <<>> THEN itemList[1] ELSE marked[Len(marked)].items

\* items.map builds a new array; the array passed in stays as it was
MarkOverdueItems ==
    /\ itemList # None
    /\ Len(marked) < MaxPasses
    /\ marked' = Append(marked, [ now |-> clock, items |-> markOverdueItems(PassInput, clock) ])
    /\ UNCHANGED <<pipelineVars, stageVars, dossierVars, itemList, clock, breakerVars, utilityVars>>

Tick ==
    /\ clock < Now + MaxTicks
    /\ clock' = clock + 1
    /\ UNCHANGED <<pipelineVars, stageVars, dossierVars, overdueVars, breakerVars, utilityVars>>

NextOverdue ==
    \/ MergeAllData
    \/ TakeMergedItems
    \/ MarkOverdueItems
    \/ Tick

SpecOverdue == InitOverdue /\ [][NextOverdue]_vars

(***************************************************************************)
(* The circuit breaker as a state machine. execute runs up to its await in *)
(* one step and the operation settles in a later step, so that several     *)
(* calls can be in flight; each settled call, rejected call and reset is   *)
(* recorded in outcomes.                                                   *)
(***************************************************************************)
MaxOutcomes == 4
MaxInFlight == 2

Thresholds == {1, 2}
ResetTimes == {1, 2}

TheBreaker == Breaker(state, failures, lastFailureTime)

InFlightCount == inFlight["closed"] + inFlight["trial"] + inFlight["half-open"]

Outcome(kind, tag) == [ result |-> kind, tag |-> tag ]

InitBreaker ==
    /\ sources = NoSources
    /\ result = None
    /\ previous = None
    /\ runs = 0
    /\ StagesIdle
    /\ DossierIdle
    /\ OverdueIdle
    /\ clock = Now
    /\ state = "closed"
    /\ failures = 0
    /\ lastFailureTime = 0
    /\ failureThreshold \in Thresholds
    /\ resetTimeMs \in ResetTimes
    /\ inFlight = NoneInFlight
    /\ outcomes = <<>>
    /\ UtilityIdle

\* execute up to `await operation()`: the call is rejected, or the
\* operation is started
Execute ==
    /\ Len(outcomes) + InFlightCount < MaxOutcomes
    /\ InFlightCount < MaxInFlight
    /\ state' = executeEntry(TheBreaker, clock, resetTimeMs).cb.state
    /\ IF executeEntry(TheBreaker, clock, resetTimeMs).admitted
       THEN /\ inFlight' = [inFlight EXCEPT ![IF state = "open" THEN "trial" ELSE state] = @ + 1]
            /\ outcomes' = outcomes
       ELSE /\ inFlight' = inFlight
            /\ outcomes' = Append(outcomes, Outcome("rejected", state))
    /\ UNCHANGED <<failures, lastFailureTime, failureThreshold, resetTimeMs>>
    /\ UNCHANGED <<pipelineVars, stageVars, dossierVars, overdueVars, clock, utilityVars>>

\* The operation of a call in flight resolves: onSuccess
OperationSucceeds ==
    /\ \E tag \in OpTags :
          /\ inFlight[tag] > 0
          /\ inFlight' = [inFlight EXCEPT ![tag] = @ - 1]
          /\ outcomes' = Append(outcomes, Outcome("success", tag))
    /\ state' = onSuccess(TheBreaker).state
    /\ failures' = onSuccess(TheBreaker).failures
    /\ lastFailureTime' = onSuccess(TheBreaker).lastFailureTime
    /\ UNCHANGED <<failureThreshold, resetTimeMs>>
    /\ UNCHANGED <<pipelineVars, stageVars, dossierVars, overdueVars, clock, utilityVars>>

\* The operation of a call in flight rejects: onFailure
OperationFails ==
    /\ \E tag \in OpTags :
          /\ inFlight[tag] > 0
          /\ inFlight' = [inFlight EXCEPT ![tag] = @ - 1]
          /\ outcomes' = Append(outcomes, Outcome("failure", tag))
    /\ state' = onFailure(TheBreaker, clock, failureThreshold).state
    /\ failures' = onFailure(TheBreaker, clock, failureThreshold).failures
    /\ lastFailureTime' = onFailure(TheBreaker, clock, failureThreshold).lastFailureTime
    /\ UNCHANGED <<failureThreshold, resetTimeMs>>
    /\ UNCHANGED <<pipelineVars, stageVars, dossierVars, overdueVars, clock, utilityVars>>

Reset ==
    /\ Len(outcomes) + InFlightCount < MaxOutcomes
    /\ state' = reset(TheBreaker).state
    /\ failures' = reset(TheBreaker).failures
    /\ lastFailureTime' = reset(TheBreaker).lastFailureTime
    /\ outcomes' = Append(outcomes, Outcome("reset", state))
    /\ UNCHANGED <<failureThreshold, resetTimeMs, inFlight>>
    /\ UNCHANGED <<pipelineVars, stageVars, dossierVars, overdueVars, clock, utilityVars>>

NextBreaker ==
    \/ Execute
    \/ OperationSucceeds
    \/ OperationFails
    \/ Reset
    \/ Tick

SpecBreaker == InitBreaker /\ [][NextBreaker]_vars

(***************************************************************************)
(* Properties of the merge.                                                *)
(***************************************************************************)
\* A run of the pipeline has returned (it did not throw).
Returned == result # None /\ ~result[1].threw

\* C1: for every input the timeline returned by mergeAllData is sorted
\* ascending by date (each event's date is at most the date of the event
\* after it), and account.timeline is that same sequence.
C1_TimelineSorted ==
    Returned =>
        LET merged == result[1].mergedData
        IN  /\ \A i \in 1..(Len(merged.timeline) - 1) :
                  merged.timeline[i].date <= merged.timeline[i + 1].date
            /\ merged.account.timeline = merged.timeline

\* Call records given newest first, with a day of chat activity and a
\* calendar event, have been merged into one timeline.
C1_Witness ==
    /\ Returned
    /\ Len(sources.fireflies.transcripts) >= 2
    /\ sources.fireflies.transcripts[1].date > sources.fireflies.transcripts[2].date
    /\ \E i \in DOMAIN result[1].mergedData.timeline :
          result[1].mergedData.timeline[i].type = "note"
    /\ \E i \in DOMAIN result[1].mergedData.timeline :
          result[1].mergedData.timeline[i].type = "meeting"
    /\ Len(result[1].mergedData.timeline) >= 4

\* C2: every key of the participant registry returned by mergeAllData is a
\* lowercase address, and two records naming one address in different
\* letter case are folded into one entry.
C2_KeysLowercaseFolded ==
    Returned =>
        LET keys == getUniqueParticipantEmails(result[1].mergedData)
        IN  /\ \A i \in DOMAIN keys : keys[i] = toLowerCase(keys[i])
            /\ \A i, j \in DOMAIN keys :
                  toLowerCase(keys[i]) = toLowerCase(keys[j]) => i = j

\* C7: mergeAllData never aborts because of one bad record: with a chat
\* message whose timestamp does not parse among the inputs, the merge still
\* returns, and every call record is on the returned timeline.
C7_MergeNeverAborts ==
    result # None =>
        /\ ~result[1].threw
        /\ \A i \in DOMAIN sources.fireflies.transcripts :
              \E k \in DOMAIN result[1].mergedData.timeline :
                  result[1].mergedData.timeline[k].id
                      = <<"ff", sources.fireflies.transcripts[i].id>>

\* The lowercase domain of an address of an internal domain
IsInternalDomain(domain) ==
    \E i \in DOMAIN INTERNAL_DOMAINS : toLowerCase(domain) = INTERNAL_DOMAINS[i]

\* C9: no address of an internal domain, in whatever letter case, is a key
\* of the participant registry produced by mergeAllData, so the external
\* participant emails of the bundle are all its participant emails.
C9_NoInternalKey ==
    Returned =>
        LET merged == result[1].mergedData
            keys == getUniqueParticipantEmails(merged)
        IN  /\ \A i \in DOMAIN keys :
                  extractDomain(keys[i]) = NoDomain \/ ~IsInternalDomain(extractDomain(keys[i]))
            /\ getExternalParticipantEmails(merged) = keys

\* A call record and a calendar event both name an internal address written
\* in capitals beside an external one, and the merge has returned.
C9_Witness ==
    /\ Returned
    /\ Len(sources.fireflies.transcripts) = 1
    /\ \E i \in DOMAIN sources.fireflies.transcripts[1].participants :
          sources.fireflies.transcripts[1].participants[i] = AndyEmailCaps
    /\ Len(sources.calendar.events) = 1
    /\ \E i \in DOMAIN sources.calendar.events[1].attendees :
          sources.calendar.events[1].attendees[i].email = AndyEmailCaps
    /\ Len(result[1].mergedData.timeline) = 2
    /\ Len(result[1].mergedData.participants) >= 1

\* Scenario A: one call record with one external and one internal
\* participant and one item assigned to the external participant.
ScenarioA ==
    /\ Len(sources.fireflies.transcripts) = 1
    /\ sources.fireflies.transcripts[1].participants = <<UserEmail, AndyEmail>>
    /\ Len(sources.fireflies.transcripts[1].actionItems) = 1
    /\ sources.fireflies.transcripts[1].actionItems[1].assignee = UserEmail
    /\ sources.slack.messages = <<>>
    /\ sources.calendar.events = <<>>

\* C10: an action item made from a call record has owner 'theirs' iff its
\* assignee is an address outside the internal domains, and 'ours'
\* otherwise (also with no assignee); Scenario A yields one call event, a
\* registry of size 1 and one item with owner 'theirs'.
C10_OwnerTheirsIffExternalAddress ==
    Returned =>
        LET merged == result[1].mergedData
            externalAddress(a) ==
                extractDomain(a) # NoDomain /\ ~IsInternalDomain(extractDomain(a))
        IN  /\ \A i \in DOMAIN merged.actionItems :
                  /\ merged.actionItems[i].owner \in {"theirs", "ours"}
                  /\ merged.actionItems[i].owner = "theirs"
                        <=> externalAddress(merged.actionItems[i].assignee)
            /\ ScenarioA =>
                  /\ Len(merged.timeline) = 1
                  /\ merged.timeline[1].type = "call"
                  /\ Len(merged.participants) = 1
                  /\ Len(merged.actionItems) = 1
                  /\ merged.actionItems[1].owner = "theirs"

(***************************************************************************)
(* Properties of the analysis, the goals and the talking points.           *)
(***************************************************************************)
Analyzed == stage \in {"analyzed", "profiled", "goals", "done"}

\* C3: for every merged bundle analyzeAccount returns a momentum score
\* within [0,100] and the category the score implies: accelerating iff
\* score >= 70, stable iff 50 <= score < 70, stalling iff 30 <= score < 50,
\* at-risk iff score < 30.
C3_MomentumWithinRange ==
    Analyzed =>
        /\ analysis.momentumScore \in 0..100
        /\ analysis.momentum = "accelerating" <=> analysis.momentumScore >= 70
        /\ analysis.momentum = "stable"
              <=> (50 <= analysis.momentumScore /\ analysis.momentumScore < 70)
        /\ analysis.momentum = "stalling"
              <=> (30 <= analysis.momentumScore /\ analysis.momentumScore < 50)
        /\ analysis.momentum = "at-risk" <=> analysis.momentumScore < 30

\* A bundle whose adjustments sum below zero has been analyzed.
C3_Witness ==
    /\ stage = "analyzed"
    /\ MomentumRaw(data, analysis.daysSinceLastContact) < 0
    /\ analysis.momentumScore = 0

GoalContext == [ account |-> data.account,
                 analysis |-> analysis,
                 participants |-> profiles,
                 mergedData |-> data ]

\* The lowercase first-30-character prefix of a goal's title
TitlePrefix(goal) == slice(toLowerCase(goal.title), 30)

\* C4: for every generation context generateGoals returns at most 5 goals,
\* in non-decreasing priority order, no two with the same lowercase
\* first-30-character title prefix; of several generated goals with one
\* prefix none but the first generated is returned.
C4_GoalsCutSortedDistinct ==
    stage \in {"goals", "done"} =>
        /\ Len(goals) <= 5
        /\ \A i \in 1..(Len(goals) - 1) : goals[i].priority <= goals[i + 1].priority
        /\ LET prefixes == SeqMap(goals, TitlePrefix)
           IN  \A i, j \in DOMAIN goals : prefixes[i] = prefixes[j] => i = j
        /\ LET generated == candidateGoals(GoalContext)
               prefixes == SeqMap(goals, TitlePrefix)
               generatedPrefixes == SeqMap(generated, TitlePrefix)
           IN  \A i \in DOMAIN goals : \A k \in DOMAIN generated :
                  generatedPrefixes[k] = prefixes[i] => generated[k].id >= goals[i].id

\* More than 5 goals were generated, two of them with one title prefix, a
\* later one of higher priority than an earlier one, and the list was returned.
C4_Witness ==
    /\ stage = "goals"
    /\ LET generated == candidateGoals(GoalContext)
           generatedPrefixes == SeqMap(generated, TitlePrefix)
       IN  /\ Len(generated) > 5
           /\ \E i, j \in DOMAIN generated :
                 i < j /\ generatedPrefixes[i] = generatedPrefixes[j]
           /\ \E i, j \in DOMAIN generated :
                 i < j /\ generated[j].priority < generated[i].priority
    /\ Len(goals) = 5

CATEGORY_ORDER == << "opener", "goal-support", "risk-mitigation", "stakeholder-specific",
                     "action-follow-up", "value-proposition", "next-steps" >>

CategoryRank(category) == CHOOSE i \in DOMAIN CATEGORY_ORDER : CATEGORY_ORDER[i] = category

\* C5: the list generateTalkingPoints returns is in non-decreasing priority
\* order across all categories, and among points of equal priority the
\* order is the fixed category order and, within a category, the order of
\* generation.
C5_PointsSortedStable ==
    stage = "done" =>
        \A i, j \in DOMAIN talkingPoints :
            i < j =>
                \/ talkingPoints[i].priority < talkingPoints[j].priority
                \/ /\ talkingPoints[i].priority = talkingPoints[j].priority
                   /\ CategoryRank(talkingPoints[i].category)
                         <= CategoryRank(talkingPoints[j].category)
                   /\ talkingPoints[i].id < talkingPoints[j].id

\* Points of one priority in several categories, two of them in one
\* category, were returned, and a point generated later precedes one
\* generated earlier.
C5_Witness ==
    /\ stage = "done"
    /\ \E i, j \in DOMAIN talkingPoints :
          /\ i < j
          /\ talkingPoints[i].priority = talkingPoints[j].priority
          /\ talkingPoints[i].category # talkingPoints[j].category
    /\ \E i, j \in DOMAIN talkingPoints :
          /\ i < j
          /\ talkingPoints[i].priority = talkingPoints[j].priority
          /\ talkingPoints[i].category = talkingPoints[j].category
    /\ \E i, j \in DOMAIN talkingPoints :
          i < j /\ talkingPoints[i].id > talkingPoints[j].id

\* C6: two runs of assembleDossier on the same inputs give the same goals,
\* risks and talking points, also when the input has call records with
\* action items, whose ids appear in the goals' relatedActionItems.
C6_RerunIdentical ==
    (runs >= 2 /\ ~result[1].threw /\ ~previous[1].threw) =>
        /\ result[1].goals = previous[1].goals
        /\ result[1].analysis.risks = previous[1].analysis.risks
        /\ result[1].talkingPoints = previous[1].talkingPoints

\* C8: when the three source collections are empty the pipeline completes,
\* and the analysis has daysSinceLastContact = 999, momentum at-risk, the
\* stale-communication risk with severity high, the limited-engagement risk
\* with severity medium, and no champion or economic-buyer risk.
C8_EmptySources ==
    (result # None /\ sources = NoSources) =>
        /\ ~result[1].threw
        /\ result[1].analysis.daysSinceLastContact = 999
        /\ result[1].analysis.momentum = "at-risk"
        /\ LET risks == result[1].analysis.risks
           IN  /\ \E i \in DOMAIN risks :
                     risks[i].id = "risk-stale-comm" /\ risks[i].severity = "high"
               /\ \E i \in DOMAIN risks :
                     risks[i].id = "risk-single-thread" /\ risks[i].severity = "medium"
               /\ \A i \in DOMAIN risks :
                     risks[i].id \notin {"risk-no-champion", "risk-no-buyer"}

\* The pipeline has run on three empty source collections.
C8_Witness ==
    /\ result # None
    /\ sources = NoSources
    /\ result[1].mergedData.timeline = <<>>
    /\ Len(result[1].analysis.risks) = 2
(***************************************************************************)
(* Properties of the scores and the risk rules.                            *)
(***************************************************************************)
\* The deltas of the momentum score as the specification lists them
RecencyDelta(days) ==
    IF days <= 3 THEN 20
    ELSE IF days <= 7 THEN 10
    ELSE IF days > 30 THEN -40
    ELSE IF days > 14 THEN -20
    ELSE 0

StakeholderDelta(n) == IF n >= 5 THEN 15 ELSE IF n >= 3 THEN 10 ELSE IF n < 2 THEN -10 ELSE 0

RecentCallDelta(n) == IF n >= 2 THEN 15 ELSE IF n >= 1 THEN 5 ELSE 0

\* C11: momentumScore equals 50 plus the fixed deltas, clamped to [0,100]:
\* contact recency +20 if <= 3 days, +10 if <= 7, -20 if > 14 and -40 if
\* > 30 (an account last contacted more than 30 days ago receives -40);
\* stakeholders +15 for >= 5 participants, +10 for >= 3, -10 for < 2;
\* recent calls +15 for >= 2 calls in the last 14 days, +5 for >= 1; each
\* overdue item costs 5 (ours) or 3 (theirs).
C11_MomentumByDeltas ==
    Analyzed =>
        analysis.momentumScore =
            Max(0, Min(100, 50 + RecencyDelta(analysis.daysSinceLastContact)
                               + StakeholderDelta(Len(data.participants))
                               + RecentCallDelta(CountWhere(data.timeline, IsRecentCall))
                               - 5 * CountWhere(data.actionItems, IsOverdueOurs)
                               - 3 * CountWhere(data.actionItems, IsOverdueTheirs)))
\* C12: healthScore always lies in [0,100] and equals momentumScore minus
\* 15 for each high-severity risk, 5 for each medium-severity risk and 3
\* for each overdue action item, clamped to that range; hence healthScore
\* never exceeds momentumScore.
C12_HealthScoreFormula ==
    Analyzed =>
        /\ analysis.healthScore \in 0..100
        /\ analysis.healthScore =
              Max(0, Min(100, analysis.momentumScore
                              - 15 * CountWhere(analysis.risks, IsHigh)
                              - 5 * CountWhere(analysis.risks, IsMedium)
                              - 3 * CountWhere(data.actionItems, IsOverdue)))
        /\ analysis.healthScore <= analysis.momentumScore

\* A bundle with high risks, medium risks and overdue items was analyzed
\* and its health score is neither clamped nor the momentum score.
C12_Witness ==
    /\ stage = "analyzed"
    /\ CountWhere(analysis.risks, IsHigh) >= 1
    /\ CountWhere(analysis.risks, IsMedium) >= 1
    /\ CountWhere(data.actionItems, IsOverdue) >= 1
    /\ 0 < analysis.healthScore
    /\ analysis.healthScore < analysis.momentumScore
RiskIds(risks) == {risks[i].id : i \in DOMAIN risks}

SeverityOf(risks, id) == (CHOOSE r \in Range(risks) : r.id = id).severity

\* The rule `id` is in the list iff its trigger holds, with severity high
\* iff `high` holds
RuleFires(risks, id, trigger, high) ==
    /\ id \in RiskIds(risks) <=> trigger
    /\ id \in RiskIds(risks) => (SeverityOf(risks, id) = "high" <=> high)
    /\ id \in RiskIds(risks) => SeverityOf(risks, id) \in {"high", "medium"}

HasRole(participants, role) == \E i \in DOMAIN participants : participants[i].role = role

\* C13: the risk list of analyzeAccount is exactly the set of rules whose
\* trigger holds, each rule evaluated independently of the others: stale
\* communication iff daysSinceLastContact > 7 (high iff > 14); stuck in
\* stage iff daysInStage > 30 (high iff > 60); limited multithreading
\* (medium) iff fewer than 3 participants, including 0; overdue-ours and
\* overdue-theirs iff at least one such overdue item (high iff more than
\* 2); no champion (medium) iff at least 1 participant and none has role
\* champion; no economic buyer (high) iff at least 3 participants and none
\* has role economic-buyer.
C13_RisksAreTheTriggeredRules ==
    Analyzed =>
        LET risks == analysis.risks
            n == Len(data.participants)
            ours == CountWhere(data.actionItems, IsOverdueOurs)
            theirs == CountWhere(data.actionItems, IsOverdueTheirs)
        IN  /\ Cardinality(RiskIds(risks)) = Len(risks)
            /\ RiskIds(risks) \subseteq
                  { "risk-stale-comm", "risk-stuck-stage", "risk-single-thread",
                    "risk-overdue-ours", "risk-overdue-theirs", "risk-no-champion",
                    "risk-no-buyer" }
            /\ RuleFires(risks, "risk-stale-comm", analysis.daysSinceLastContact > 7,
                         analysis.daysSinceLastContact > 14)
            /\ RuleFires(risks, "risk-stuck-stage", analysis.daysInStage > 30,
                         analysis.daysInStage > 60)
            /\ RuleFires(risks, "risk-single-thread", n < 3, FALSE)
            /\ RuleFires(risks, "risk-overdue-ours", ours >= 1, ours > 2)
            /\ RuleFires(risks, "risk-overdue-theirs", theirs >= 1, theirs > 2)
            /\ RuleFires(risks, "risk-no-champion",
                         n >= 1 /\ ~HasRole(data.participants, "champion"), FALSE)
            /\ RuleFires(risks, "risk-no-buyer",
                         n >= 3 /\ ~HasRole(data.participants, "economic-buyer"), TRUE)

\* Six rules fired together on one bundle, overdue items of both sides
\* among them.
C13_Witness ==
    /\ stage = "analyzed"
    /\ Len(analysis.risks) = 6
    /\ {"risk-overdue-ours", "risk-overdue-theirs", "risk-stuck-stage"}
          \subseteq RiskIds(analysis.risks)
MentionsOf(event) ==
    SeqFilter(competitiveIntel.mentions, LAMBDA m : m.sourceId = event.id)

NamesCompetitor(event, c) ==
    \E a \in DOMAIN c.aliases : includes(searchTextOf(event), c.aliases[a])

HasSignal(event) ==
    \E i \in DOMAIN COMPETITIVE_SIGNALS : includes(searchTextOf(event), COMPETITIVE_SIGNALS[i])

\* C17: for each timeline event extractCompetitiveIntel produces at most
\* one competitor mention: when the event text matches aliases of several
\* known competitors only the first match in dictionary order is counted,
\* and the 'Unknown Competitor' mention is produced only when no known
\* competitor matched and a generic competitive-signal phrase is present;
\* hence the number of mentions never exceeds the number of timeline events.
C17_OneMentionPerEvent ==
    stage = "intel" =>
        /\ Len(competitiveIntel.mentions) <= Len(data.timeline)
        /\ \A e \in DOMAIN data.timeline :
              LET event == data.timeline[e]
                  found == MentionsOf(event)
                  named == {c \in DOMAIN KNOWN_COMPETITORS :
                                NamesCompetitor(event, KNOWN_COMPETITORS[c])}
              IN  /\ Len(found) <= 1
                  /\ named # {} =>
                        /\ Len(found) = 1
                        /\ found[1].competitor =
                              KNOWN_COMPETITORS[CHOOSE c \in named : \A d \in named : c <= d].name
                  /\ (named = {} /\ HasSignal(event)) =>
                        (Len(found) = 1 /\ found[1].competitor = "Unknown Competitor")
                  /\ (named = {} /\ ~HasSignal(event)) => Len(found) = 0
(***************************************************************************)
(* Properties of the dossier validator and of the quick dossier.           *)
(***************************************************************************)
\* The five minimum-content conditions, each with the message of its issue
ContentConditions(d) ==
    << [ fails |-> d.meeting.title = <<>>, message |-> "Missing meeting title" ],
       [ fails |-> d.account.name = <<>>, message |-> "Missing account name" ],
       [ fails |-> Len(d.externalParticipants) = 0,
         message |-> "No external participants identified" ],
       [ fails |-> Len(d.executiveSummary.topGoals) = 0, message |-> "No goals generated" ],
       [ fails |-> Len(d.talkingPoints) = 0, message |-> "No talking points generated" ] >>

Occurrences(list, x) == Cardinality({i \in DOMAIN list : list[i] = x})

ReportsEveryViolation(d, v) ==
    LET conds == ContentConditions(d)
    IN  /\ \A i \in DOMAIN conds :
              Occurrences(v.issues, conds[i].message) = IF conds[i].fails THEN 1 ELSE 0
        /\ Len(v.issues) = Cardinality({i \in DOMAIN conds : conds[i].fails})
        /\ v.isValid = (v.issues = <<>>)

\* C15: validateDossier returns one issue for each of the five conditions
\* that fails and no other, isValid is true exactly when there is no issue,
\* the dossier is the same after the call, and an assembled dossier for which
\* at least one goal was generated is not reported as having no goals.
C15_ValidatorReportsEveryViolation ==
    [][ (validation = None /\ validation' # None) =>
            /\ dossier' = dossier
            /\ ReportsEveryViolation(dossier[1], validation'[1])
            /\ (origin = "assembled" /\ Len(result[1].goals) >= 1) =>
                   Occurrences(validation'[1].issues, "No goals generated") = 0 ]_vars

\* A dossier was validated and more than one condition failed
C15_Witness ==
    /\ validation # None
    /\ Len(validation[1].issues) >= 3
    /\ ~validation[1].isValid
\* An attendee is external when the address is not of an internal domain
HasExternalAttendee(meeting) ==
    \E i \in DOMAIN meeting.attendees : ~isInternalEmail(meeting.attendees[i].email)

EmailsOf(list) == {list[i].email : i \in DOMAIN list}

PartitionsAttendees(d) ==
    /\ Len(d.externalParticipants) + Len(d.internalParticipants) = Len(d.meeting.attendees)
    /\ EmailsOf(d.externalParticipants) \cup EmailsOf(d.internalParticipants)
           = EmailsOf(d.meeting.attendees)
    /\ EmailsOf(d.externalParticipants) \cap EmailsOf(d.internalParticipants) = {}

\* C16: the quick dossier of a meeting with a title and at least one external
\* attendee, for a non-empty account name, passes validateDossier with no
\* issue, has 3 talking points and 2 questions to ask, and puts each attendee
\* in exactly one of its two participant lists.
C16_QuickDossierIsValid ==
    (/\ origin = "quick"
     /\ dossier[1].meeting.title # <<>>
     /\ dossier[1].account.name # <<>>
     /\ HasExternalAttendee(dossier[1].meeting)) =>
        /\ validateDossier(dossier[1]).isValid
        /\ validateDossier(dossier[1]).issues = <<>>
        /\ Len(dossier[1].talkingPoints) = 3
        /\ Len(dossier[1].strategicInsights.questionsToAsk) = 2
        /\ PartitionsAttendees(dossier[1])
(***************************************************************************)
(* Properties of the overdue pass.                                         *)
(***************************************************************************)
StatusesOf(list) == [i \in DOMAIN list |-> list[i].status]

IsPastDue(item, now) ==
    /\ item.status = "pending"
    /\ item.dueDate # None
    /\ item.dueDate[1] # InvalidDate
    /\ item.dueDate[1] < now

\* C18: the Merger creates every action item as 'pending'; a pass of
\* markOverdueItems returns a list of the same length and order in which a
\* pending item with a due date earlier than now has status 'overdue' and
\* its days overdue, and every other item is the item given; the list given
\* is not changed; and the statuses after two passes are the statuses one
\* pass gives at that time (those of the first pass when no time has passed).
C18_OverdueOnlyByThePass ==
    [][ /\ (stage = "raw" /\ stage' = "merged") =>
               \A i \in DOMAIN data'.actionItems : data'.actionItems[i].status = "pending"
        /\ (Len(marked') = Len(marked) + 1) =>
               LET given == PassInput
                   out == marked'[Len(marked')].items
               IN  /\ itemList' = itemList
                   /\ Len(out) = Len(given)
                   /\ \A i \in DOMAIN given :
                          IF IsPastDue(given[i], clock)
                          THEN /\ out[i].status = "overdue"
                               /\ out[i].daysOverdue # None
                               /\ out[i].daysOverdue[1] > 0
                               /\ [out[i] EXCEPT !.status = "pending",
                                                 !.daysOverdue = given[i].daysOverdue] = given[i]
                          ELSE out[i] = given[i]
                   /\ Len(marked') = 2 =>
                          /\ StatusesOf(out) = StatusesOf(markOverdueItems(itemList[1], clock))
                          /\ marked[1].now = clock =>
                                 StatusesOf(out) = StatusesOf(marked[1].items) ]_vars

\* Two passes were applied to a list with a pending item past its due date
\* and an item that is not pending or has no due date
C18_Witness ==
    /\ Len(marked) = 2
    /\ \E i \in DOMAIN itemList[1] :
          /\ itemList[1][i].status = "pending"
          /\ marked[2].items[i].status = "overdue"
    /\ \E i \in DOMAIN itemList[1] :
          /\ itemList[1][i].status # "pending" \/ itemList[1][i].dueDate = None
          /\ marked[2].items[i] = itemList[1][i]
(***************************************************************************)
(* Properties of the circuit breaker.                                      *)
(***************************************************************************)
\* The failed executions at the end of the record with no success (and no
\* reset) in between; rejected calls ran no operation and are passed over
RECURSIVE FailuresInARow(_)
FailuresInARow(record) ==
    IF record = <<>> THEN 0
    ELSE LET last == record[Len(record)]
             before == SubSeq(record, 1, Len(record) - 1)
         IN  IF last.result = "failure" THEN 1 + FailuresInARow(before)
             ELSE IF last.result = "rejected" THEN FailuresInARow(before)
             ELSE 0

Settled(kind) ==
    /\ Len(outcomes') = Len(outcomes) + 1
    /\ outcomes'[Len(outcomes')].result = kind

ResetTimePassed == clock - lastFailureTime >= resetTimeMs

\* C19: when an execution fails and failureThreshold executions have now
\* failed in a row, the breaker is open; from an open breaker whose reset
\* time has not passed no step starts an operation, an execute call being
\* rejected and leaving the breaker open; and a success found in the closed
\* state leaves failure count 0.
C19_OpensAtThresholdAndRejects ==
    [][ /\ (Settled("failure") /\ FailuresInARow(outcomes') >= failureThreshold) =>
               state' = "open"
        /\ (state = "open" /\ ~ResetTimePassed) =>
               /\ \A tag \in OpTags : inFlight'[tag] <= inFlight[tag]
               /\ Settled("rejected") =>
                      state' = "open" /\ failures' = failures /\ inFlight' = inFlight
        /\ (state = "closed" /\ Settled("success")) =>
               failures' = 0 /\ state' = "closed" ]_vars

\* The breaker opened at the threshold of 2 and then rejected a call
C19_Witness ==
    /\ failureThreshold = 2
    /\ state = "open"
    /\ failures = 2
    /\ Len(outcomes) = 3
    /\ outcomes[1].result = "failure"
    /\ outcomes[2].result = "failure"
    /\ outcomes[3].result = "rejected"

NeverReset == \A i \in DOMAIN outcomes : outcomes[i].result # "reset"

\* An operation was started by the call that found the breaker open
TrialSettled(kind) ==
    /\ Settled(kind)
    /\ outcomes'[Len(outcomes')].tag = "trial"

\* C20: from an open breaker whose reset time has passed, an execute call
\* is not rejected: it makes the breaker half-open and starts the
\* operation; when that operation succeeds the breaker is closed with
\* failure count 0, when it fails (reset() not having been called) the
\* breaker is open; and reset() leaves the breaker closed with failure
\* count 0.
C20_HalfOpenTrial ==
    [][ /\ (state = "open" /\ ResetTimePassed) =>
               /\ ~Settled("rejected")
               /\ InFlightCount' > InFlightCount =>
                      state' = "half-open" /\ inFlight'["trial"] = inFlight["trial"] + 1
        /\ TrialSettled("success") => state' = "closed" /\ failures' = 0
        /\ (TrialSettled("failure") /\ NeverReset) => state' = "open"
        /\ Settled("reset") => state' = "closed" /\ failures' = 0 ]_vars
(***************************************************************************)
(* Properties of the action-follow-up rule.                                *)
(***************************************************************************)
IsFollowUp(p) == p.category = "action-follow-up"

FollowUpPoints == SeqFilter(talkingPoints, IsFollowUp)

\* C23: the action-follow-up rule is an else-chain: the point for the first
\* overdue item of ours is produced only when no item of theirs is overdue,
\* the count of pending items of theirs only when no item is overdue, and so
\* a run produces at most one action-follow-up point.
C23_FollowUpElseChain ==
    (stage \in {"done", "intel", "built"}) =>
        LET rule == generateActionFollowUpPoints([ mergedData |-> data ])
            overdueTheirs == CountWhere(data.actionItems, IsOverdueTheirs)
            overdueOurs == CountWhere(data.actionItems, IsOverdueOurs)
        IN  /\ Len(rule) <= 1
            /\ Len(FollowUpPoints) <= 1
            /\ (overdueTheirs > 0) =>
                   \A i \in DOMAIN rule : rule[i].point[1] = "Follow up on: "
            /\ (overdueTheirs = 0 /\ overdueOurs > 0) =>
                   \A i \in DOMAIN rule : rule[i].point[1] = "Acknowledge our overdue item: "
            /\ (overdueTheirs = 0 /\ overdueOurs = 0) =>
                   \A i \in DOMAIN rule : rule[i].priority = 3
\* C29: with several calls in flight the breaker leaves the open state only
\* by becoming half-open once the reset time has passed or by reset(); the
\* success of an operation started while the breaker was closed leaves an
\* open breaker open with its failure count; and while the breaker is
\* half-open at most one operation started in that state is in flight.
C29_OpenUntilTrialOrReset ==
    [][ /\ (state = "open" /\ state' # "open") =>
               \/ Settled("reset")
               \/ state' = "half-open" /\ ResetTimePassed
        /\ (state = "open" /\ Settled("success")) =>
               state' = "open" /\ failures' = failures
        /\ (state' = "half-open") =>
               inFlight'["trial"] + inFlight'["half-open"] <= 1 ]_vars
(***************************************************************************)
(* Properties of the assembled dossier.                                    *)
(***************************************************************************)
\* C25: every assembled dossier has at least one top goal and at least one
\* talking point, and validateDossier reports neither 'No goals generated'
\* nor 'No talking points generated' for it.
C25_AssembledHasGoalsAndPoints ==
    (stage = "built") =>
        /\ Len(dossier[1].executiveSummary.topGoals) >= 1
        /\ Len(dossier[1].talkingPoints) >= 1
        /\ Occurrences(validateDossier(dossier[1]).issues, "No goals generated") = 0
        /\ Occurrences(validateDossier(dossier[1]).issues, "No talking points generated") = 0

\* A dossier was assembled from a bundle in a known deal stage with a high
\* risk, so that a priority-1 goal precedes the stage goals
C25_Witness ==
    /\ stage = "built"
    /\ data.account.dealStage # None
    /\ \E i \in DOMAIN goals : goals[i].priority = 1
    /\ \E i \in DOMAIN goals : goals[i].priority = 2
    /\ Len(dossier[1].executiveSummary.topGoals) = TOP_GOALS
(***************************************************************************)
(* The two classifications of addresses: the Merger's (INTERNAL_DOMAINS)   *)
(* and the Assembler's own.                                                *)
(***************************************************************************)
RegistryEmails(reg) == {reg[i].key : i \in DOMAIN reg}

\* C28: in an assembled dossier an attendee address is listed under
\* internalParticipants exactly when the Merger treats it as internal; no
\* address is both a registry participant and an internal participant, and
\* no address the Merger treats as internal is an external participant.
C28_ConsistentClassification ==
    (origin = "assembled") =>
        LET d == dossier[1]
            registry == result[1].mergedData.participants
        IN  /\ \A i \in DOMAIN d.meeting.attendees :
                   (d.meeting.attendees[i].email \in EmailsOf(d.internalParticipants))
                       <=> isInternalEmail(d.meeting.attendees[i].email)
            /\ RegistryEmails(registry) \cap EmailsOf(d.internalParticipants) = {}
            /\ \A e \in EmailsOf(d.externalParticipants) : ~isInternalEmail(e)
(***************************************************************************)
(* The order of the calls in assembleDossier.                              *)
(***************************************************************************)
WithoutDueDates(d) ==
    [d EXCEPT !.actionItems = [i \in DOMAIN @ |-> [@[i] EXCEPT !.dueDate = None]]]

OverdueRiskIds == {"risk-overdue-ours", "risk-overdue-theirs"}
OverdueGoalTitles == { <<"F", "o", "l", "l", "o", "w", " ", "u", "p", " ", "o", "n", " ", "o",
                         "v", "e", "r", "d", "u", "e", " ", "c", "u", "s", "t", "o", "m", "e",
                         "r", " ", "a", "c", "t", "i", "o", "n", " ", "i", "t", "e", "m", "s">>,
                       <<"D", "e", "l", "i", "v", "e", "r", " ", "o", "n", " ", "o", "u", "r",
                         " ", "o", "v", "e", "r", "d", "u", "e", " ", "c", "o", "m", "m", "i",
                         "t", "m", "e", "n", "t", "s">> }
OverduePointHeads == {"Follow up on: ", "Acknowledge our overdue item: "}

\* C26: in every run of assembleDossier every action item of the merged
\* bundle is 'pending' whatever its due date; the analysis has no
\* overdue-ours or overdue-theirs risk, its momentumScore and healthScore are
\* those of the same bundle without due dates, and no goal or talking point
\* about overdue items is produced.
C26_PipelineNeverMarksOverdue ==
    (result # None /\ ~result[1].threw) =>
        LET r == result[1]
            plain == analyzeAccount(WithoutDueDates(r.mergedData), NoOptions)
        IN  /\ \A i \in DOMAIN r.mergedData.actionItems :
                   r.mergedData.actionItems[i].status = "pending"
            /\ \A i \in DOMAIN r.analysis.risks : r.analysis.risks[i].id \notin OverdueRiskIds
            /\ r.analysis.momentumScore = plain.momentumScore
            /\ r.analysis.healthScore = plain.healthScore
            /\ \A i \in DOMAIN r.goals : r.goals[i].title \notin OverdueGoalTitles
            /\ \A i \in DOMAIN r.talkingPoints :
                   r.talkingPoints[i].category = "action-follow-up"
                       => r.talkingPoints[i].point[1] \notin OverduePointHeads

\* A run merged an item of each owner whose due date is in the past
C26_Witness ==
    /\ result # None
    /\ ~result[1].threw
    /\ \E i, j \in DOMAIN result[1].mergedData.actionItems :
          LET x == result[1].mergedData.actionItems[i]
              y == result[1].mergedData.actionItems[j]
          IN  /\ x.owner = "theirs" /\ y.owner = "ours"
              /\ x.dueDate # None /\ DateBefore(x.dueDate[1], Now)
              /\ y.dueDate # None /\ DateBefore(y.dueDate[1], Now)
HasRisk(risks, id) == \E i \in DOMAIN risks : risks[i].id = id
HasHighRisk(risks, id) == \E i \in DOMAIN risks : risks[i].id = id /\ risks[i].severity = "high"

\* C27: the Analyzer runs before the Profiler, on a registry whose
\* participants all have role 'unknown': in every run the no-champion risk is
\* present exactly when the registry is non-empty and the high-severity
\* no-economic-buyer risk exactly when the registry has at least 3
\* participants, whatever roles the Profiler infers afterwards.
C27_RisksFromUnprofiledRegistry ==
    (result # None /\ ~result[1].threw) =>
        LET registry == result[1].mergedData.participants
            risks == result[1].analysis.risks
        IN  /\ \A i \in DOMAIN registry : registry[i].role = "unknown"
            /\ HasRisk(risks, "risk-no-champion") <=> Len(registry) > 0
            /\ HasRisk(risks, "risk-no-buyer") <=> Len(registry) >= 3
            /\ HasRisk(risks, "risk-no-buyer") <=> HasHighRisk(risks, "risk-no-buyer")

\* A run whose Profiler inferred the economic-buyer role for a participant of
\* a registry of 3, while the analysis reports that both roles are missing
C27_Witness ==
    /\ result # None
    /\ ~result[1].threw
    /\ Len(result[1].mergedData.participants) >= 3
    /\ \E i \in DOMAIN result[1].profiles : result[1].profiles[i].role = "economic-buyer"
    /\ HasRisk(result[1].analysis.risks, "risk-no-champion")
    /\ HasHighRisk(result[1].analysis.risks, "risk-no-buyer")
(***************************************************************************)
(* enrichParticipant on one participant: the six signals of the confidence *)
(* score present or absent, the role given or left to inferRole.           *)
(***************************************************************************)
ConsultantTitle == <<"C", "o", "n", "s", "u", "l", "t", "a", "n", "t">>
CtoTitle == <<"C", "T", "O">>
LinkedInUrl == <<"h", "t", "t", "p", "s", ":", "/", "/", "l", "i", "n", "k", "e", "d", "i",
                 "n", ".", "c", "o", "m", "/", "i", "n", "/", "u", "s", "e", "r">>
BackgroundText == <<"T", "e", "n", " ", "y", "e", "a", "r", "s", " ", "i", "n", " ", "p", "l",
                    "a", "t", "f", "o", "r", "m", " ", "t", "e", "a", "m", "s">>
SyncInteraction == [ date |-> Now - 4, type |-> "call", title |-> <<"S", "y", "n", "c">>, summary |-> <<>> ]

Candidates ==
    { [ key |-> UserEmail,
        email |-> UserEmail,
        name |-> name,
        company |-> company,
        title |-> title,
        role |-> role,
        influence |-> "medium",
        linkedInUrl |-> url,
        background |-> background,
        previousInteractions |-> interactions,
        lastInteractionDate |-> None,
        totalInteractions |-> Len(interactions),
        whatTheyCareAbout |-> <<>> ] :
      name \in {<<>>, ToyotaUserName},
      company \in {<<>>, TOYOTA_COM},
      title \in {<<>>, ConsultantTitle, CtoTitle},
      role \in {"unknown", "champion"},
      url \in {<<>>, LinkedInUrl},
      background \in {<<>>, BackgroundText},
      interactions \in {<<>>, <<SyncInteraction>>} }

InitProfile ==
    /\ sources = NoSources
    /\ result = None
    /\ previous = None
    /\ runs = 0
    /\ StagesIdle
    /\ DossierIdle
    /\ OverdueIdle
    /\ clock = Now
    /\ BreakerIdle
    /\ candidate \in {Some(c) : c \in Candidates}
    /\ enriched = None
    /\ RetryIdle
    /\ SchedulerIdle

EnrichParticipant ==
    /\ enriched = None
    /\ enriched' = Some(enrichParticipant(candidate[1]))
    /\ UNCHANGED <<pipelineVars, stageVars, dossierVars, overdueVars, clock, breakerVars>>
    /\ UNCHANGED <<candidate, retryVars, schedulerVars>>

NextProfile == EnrichParticipant

SpecProfile == InitProfile /\ [][NextProfile]_vars

SignalsPresent(profile) ==
    Cardinality({i \in DOMAIN CONFIDENCE_SIGNALS : Truthy(profile, CONFIDENCE_SIGNALS[i])})

\* C24: the confidence of a profile returned by enrichParticipant lies in
\* [0,1]; with role unknown a profile with k of the 6 signals present has
\* confidence k/6; and no profile with fewer signals present has a higher
\* confidence.
C24_ConfidenceIsFractionOfSix ==
    (enriched # None) =>
        LET profile == enriched[1]
            k == SignalsPresent(profile)
        IN  /\ RatioLeq(Ratio(0, 1), profile.confidence)
            /\ RatioLeq(profile.confidence, Ratio(1, 1))
            /\ (profile.role = "unknown") => RatioEq(profile.confidence, Ratio(k, 6))
            /\ \A c \in Candidates :
                   LET other == enrichParticipant(c)
                   IN  SignalsPresent(other) < k
                           => RatioLeq(other.confidence, profile.confidence)
(***************************************************************************)
(* Retry utility (executeWithRetry, withRetry). Delays are in ms; the      *)
(* errors an operation rejects with are transient or permanent and carry   *)
(* the number of the attempt that threw them.                              *)
(***************************************************************************)
DEFAULT_MAX_ATTEMPTS == 3
DEFAULT_INITIAL_DELAY_MS == 1000
DEFAULT_MAX_DELAY_MS == 30000
DEFAULT_BACKOFF_MULTIPLIER == 2

DEFAULT_OPTIONS ==
    [ maxAttempts |-> DEFAULT_MAX_ATTEMPTS,
      initialDelayMs |-> DEFAULT_INITIAL_DELAY_MS,
      maxDelayMs |-> DEFAULT_MAX_DELAY_MS,
      backoffMultiplier |-> DEFAULT_BACKOFF_MULTIPLIER,
      jitter |-> TRUE ]

MaxRetryAttempts == 3
InitialDelays == {4}
MaxDelays == {6}

\* isRetryable: not given, or one of two predicates on the error
RetryablePredicates == {"absent", "transient-only", "never"}

\* { ...DEFAULT_OPTIONS, ...options }
RetryConfigs ==
    { [DEFAULT_OPTIONS EXCEPT !.maxAttempts = n, !.initialDelayMs = d, !.maxDelayMs = m,
                              !.jitter = j]
          @@ [ isRetryable |-> p, onRetry |-> cb ] :
      n \in 0..MaxRetryAttempts, d \in InitialDelays, m \in MaxDelays, j \in BOOLEAN,
      p \in RetryablePredicates, cb \in BOOLEAN }

ErrorKinds == {"transient", "permanent"}
OperationError(kind, n) == [ kind |-> kind, attempt |-> n ]
OperationValue(n) == [ attempt |-> n ]

\* config.isRetryable(error), for a predicate that is given
isRetryable(predicate, error) ==
    IF predicate = "never" THEN FALSE ELSE error.kind = "transient"

\* The two breaks of the catch block, counting attempts only
stopsRetryingAtLimitOnly(config, n, error) == n = config.maxAttempts

\* The two breaks of the catch block
stopsRetrying(config, n, error) ==
    \/ n = config.maxAttempts
    \/ config.isRetryable # "absent" /\ ~isRetryable(config.isRetryable, error)

\* delay + (Math.random() * 2 - 1) * jitterRange, then Math.min with
\* maxDelayMs: the least, the middle and the greatest value
jitteredDelays(config, delay) ==
    LET jitterRange == delay \div 4
        drawn == IF config.jitter THEN {delay - jitterRange, delay, delay + jitterRange}
                 ELSE {delay}
    IN  {Min(d, config.maxDelayMs) : d \in drawn}

\* Math.min(currentDelay * config.backoffMultiplier, config.maxDelayMs)
nextDelay(config, delay) == Min(delay * config.backoffMultiplier, config.maxDelayMs)

successResult(value, n) ==
    [ success |-> TRUE, value |-> Some(value), error |-> None, attempts |-> n ]

\* The return after the loop; error is lastError
failureResult(config, error) ==
    [ success |-> FALSE, value |-> None, error |-> error, attempts |-> config.maxAttempts ]

GenericError == [ kind |-> "Operation failed after retries", attempt |-> 0 ]

\* withRetry on the result of executeWithRetry
withRetry(res) ==
    IF ~res.success
    THEN [ settled |-> "rejected",
           with |-> IF res.error # None THEN res.error[1] ELSE GenericError ]
    ELSE [ settled |-> "resolved", with |-> res.value[1] ]

Invocation(n, outcome, with) == [ attempt |-> n, outcome |-> outcome, with |-> with ]

InitRetry ==
    /\ sources = NoSources
    /\ result = None
    /\ previous = None
    /\ runs = 0
    /\ StagesIdle
    /\ DossierIdle
    /\ OverdueIdle
    /\ clock = Now
    /\ BreakerIdle
    /\ ProfileIdle
    /\ RetryIdle
    /\ SchedulerIdle

\* executeWithRetry up to the first `await operation()`, or to its return
\* when the loop is not entered
ExecuteWithRetry ==
    /\ retryPc = "idle"
    /\ \E config \in RetryConfigs :
          /\ retryConfig' = Some(config)
          /\ currentDelay' = config.initialDelayMs
          /\ attempt' = 1
          /\ IF 1 <= config.maxAttempts
             THEN /\ invocations' = <<Invocation(1, "pending", None)>>
                  /\ retryPc' = "operation"
                  /\ retryResult' = None
             ELSE /\ invocations' = <<>>
                  /\ retryPc' = "returned"
                  /\ retryResult' = Some(failureResult(config, None))
    /\ UNCHANGED <<retried, lastError>>
    /\ UNCHANGED <<pipelineVars, stageVars, dossierVars, overdueVars, clock, breakerVars>>
    /\ UNCHANGED <<profileVars, schedulerVars>>

\* The operation resolves: the return of the try block
AttemptResolves ==
    /\ retryPc = "operation"
    /\ invocations' = [invocations EXCEPT ![Len(invocations)] =
                          Invocation(attempt, "resolved", OperationValue(attempt))]
    /\ retryResult' = Some(successResult(OperationValue(attempt), attempt))
    /\ retryPc' = "returned"
    /\ UNCHANGED <<retryConfig, attempt, currentDelay, retried, lastError>>
    /\ UNCHANGED <<pipelineVars, stageVars, dossierVars, overdueVars, clock, breakerVars>>
    /\ UNCHANGED <<profileVars, schedulerVars>>

\* The operation rejects: the catch block up to `await sleep(delay)`, or to
\* the return after the loop when it breaks
AttemptRejects ==
    /\ retryPc = "operation"
    /\ \E kind \in ErrorKinds :
          LET error == OperationError(kind, attempt)
          IN  /\ invocations' = [invocations EXCEPT ![Len(invocations)] =
                                    Invocation(attempt, "rejected", error)]
              /\ lastError' = Some(error)
              /\ IF stopsRetrying(retryConfig[1], attempt, error)
                 THEN /\ retryResult' = Some(failureResult(retryConfig[1], Some(error)))
                      /\ retryPc' = "returned"
                      /\ retried' = retried
                 ELSE /\ \E delay \in jitteredDelays(retryConfig[1], currentDelay) :
                            retried' = IF retryConfig[1].onRetry
                                       THEN Append(retried, [ attempt |-> attempt,
                                                              error |-> error,
                                                              nextDelayMs |-> delay ])
                                       ELSE retried
                      /\ retryPc' = "sleep"
                      /\ retryResult' = retryResult
    /\ UNCHANGED <<retryConfig, attempt, currentDelay>>
    /\ UNCHANGED <<pipelineVars, stageVars, dossierVars, overdueVars, clock, breakerVars>>
    /\ UNCHANGED <<profileVars, schedulerVars>>

\* The timer of sleep fires: the delay is increased, attempt++, and the loop
\* calls the operation again or ends
SleepEnds ==
    /\ retryPc = "sleep"
    /\ currentDelay' = nextDelay(retryConfig[1], currentDelay)
    /\ attempt' = attempt + 1
    /\ IF attempt + 1 <= retryConfig[1].maxAttempts
       THEN /\ invocations' = Append(invocations, Invocation(attempt + 1, "pending", None))
            /\ retryPc' = "operation"
            /\ retryResult' = retryResult
       ELSE /\ invocations' = invocations
            /\ retryPc' = "returned"
            /\ retryResult' = Some(failureResult(retryConfig[1], lastError))
    /\ UNCHANGED <<retryConfig, retried, lastError>>
    /\ UNCHANGED <<pipelineVars, stageVars, dossierVars, overdueVars, clock, breakerVars>>
    /\ UNCHANGED <<profileVars, schedulerVars>>

NextRetry ==
    \/ ExecuteWithRetry
    \/ AttemptResolves
    \/ AttemptRejects
    \/ SleepEnds

SpecRetry == InitRetry /\ [][NextRetry]_vars

\* A called operation settles and a timer set by sleep fires
SpecRetryFair ==
    /\ SpecRetry
    /\ WF_vars(AttemptResolves \/ AttemptRejects)
    /\ WF_vars(SleepEnds)
(***************************************************************************)
(* Properties of the retry utility.                                        *)
(***************************************************************************)
RetryReturned == retryPc = "returned"
SomeResolved == \E i \in DOMAIN invocations : invocations[i].outcome = "resolved"
LastInvocation == invocations[Len(invocations)]

\* isRetryable returned false for the error
RefusedRetry(error) ==
    /\ retryConfig[1].isRetryable # "absent"
    /\ ~isRetryable(retryConfig[1].isRetryable, error)

RetrySafe ==
    (retryPc # "idle") =>
        /\ Len(invocations) <= retryConfig[1].maxAttempts
        \* an attempt is followed by another only if it failed and the
        \* failure was not refused
        /\ \A i \in 1..(Len(invocations) - 1) :
              /\ invocations[i].outcome = "rejected"
              /\ ~RefusedRetry(invocations[i].with)
        /\ (RetryReturned /\ SomeResolved) =>
              /\ withRetry(retryResult[1]).settled = "resolved"
              /\ withRetry(retryResult[1]).with = LastInvocation.with
        /\ (RetryReturned /\ ~SomeResolved) =>
              /\ withRetry(retryResult[1]).settled = "rejected"
              /\ (invocations # <<>>) =>
                    /\ withRetry(retryResult[1]).with = LastInvocation.with
                    /\ \/ Len(invocations) = retryConfig[1].maxAttempts
                       \/ RefusedRetry(LastInvocation.with)
        \* onRetry: once per re-attempt, with the number of the failed attempt
        /\ retryConfig[1].onRetry =>
              /\ Len(retried) = IF retryPc = "sleep" THEN Len(invocations)
                                ELSE Max(0, Len(invocations) - 1)
              /\ \A i \in DOMAIN retried :
                    /\ retried[i].attempt = i
                    /\ retried[i].error = invocations[i].with

C22_AttemptsCountsInvocations ==
    RetryReturned =>
        /\ retryResult[1].attempts = Len(invocations)
        /\ retryResult[1].success <=> SomeResolved
(***************************************************************************)
(* Scheduler (scheduler/cron.ts). jobs is the Map in insertion order; a    *)
(* job carries the JobConfig its task closes over and whether its task is  *)
(* started; lastRun, lastStatus and lastError, which no operation reads,   *)
(* are left out. An execution is one call of executeJob that got past the  *)
(* lookup of the job.                                                      *)
(***************************************************************************)
MaxExecutions == 2
JobIds == {"job-a", "job-b"}

\* onSuccess and onError: not given, returning, or throwing
Callbacks == { <<"absent", "absent">>, <<"returns", "throws">>, <<"throws", "absent">> }

JobConfigs ==
    { [ id |-> id, onSuccess |-> cb[1], onError |-> cb[2] ] : id \in JobIds, cb \in Callbacks }

JobIndex(jobMap, id) == {i \in DOMAIN jobMap : jobMap[i].id = id}
HasJob(jobMap, id) == JobIndex(jobMap, id) # {}
GetJob(jobMap, id) == jobMap[CHOOSE i \in JobIndex(jobMap, id) : TRUE]
DeleteJob(jobMap, id) == LET Other(j) == j.id # id IN SeqFilter(jobMap, Other)

\* A Scheduler: the fields an operation reads and writes
Scheduler(jobMap, running, st, execs) ==
    [ jobs |-> jobMap, isRunning |-> running, stats |-> st, executions |-> execs ]

TheScheduler == Scheduler(jobs, isRunning, stats, executions)

\* unregisterJob: task.stop(), jobs.delete, totalJobs
unregisterJob(s, id) ==
    IF ~HasJob(s.jobs, id) THEN s
    ELSE LET rest == DeleteJob(s.jobs, id)
         IN  [s EXCEPT !.jobs = rest, !.stats.totalJobs = Len(rest)]

\* executeJob up to `await config.handler()`
executeJob(s, config) ==
    IF ~HasJob(s.jobs, config.id) THEN s
    ELSE LET i == CHOOSE i \in JobIndex(s.jobs, config.id) : TRUE
         IN  [s EXCEPT !.stats.runningJobs = @ + 1,
                       !.jobs[i].runCount = @ + 1,
                       !.executions = Append(@, [ config |-> config,
                                                  phase |-> "running",
                                                  outcome |-> None ])]

\* registerJob with a valid cron expression
registerJob(s, config, immediately) ==
    LET cleared == IF HasJob(s.jobs, config.id) THEN unregisterJob(s, config.id) ELSE s
        job == [ id |-> config.id, config |-> config, runCount |-> 0,
                 started |-> s.isRunning ]
        added == [cleared EXCEPT !.jobs = Append(@, job),
                                 !.stats.totalJobs = Len(cleared.jobs) + 1]
    IN  IF immediately THEN executeJob(added, config) ELSE added

\* The catch block and the finally block
afterThrow(s, e) ==
    [s EXCEPT !.stats.failedRuns = @ + 1,
              !.stats.runningJobs = @ - 1,
              !.executions[e].phase = "done",
              !.executions[e].outcome = Some("failure")]

\* The handler resolved: the rest of the try block, then the catch block if
\* onSuccess throws, then the finally block
afterResolve(s, e) ==
    LET counted == [s EXCEPT !.stats.successfulRuns = @ + 1]
    IN  IF s.executions[e].config.onSuccess = "throws" THEN afterThrow(counted, e)
        ELSE [counted EXCEPT !.stats.runningJobs = @ - 1,
                             !.executions[e].phase = "done",
                             !.executions[e].outcome = Some("success")]

SchedulerBecomes(s) ==
    /\ jobs' = s.jobs
    /\ isRunning' = s.isRunning
    /\ stats' = s.stats
    /\ executions' = s.executions
    /\ UNCHANGED runOnInit
    /\ UNCHANGED <<pipelineVars, stageVars, dossierVars, overdueVars, clock, breakerVars>>
    /\ UNCHANGED <<profileVars, retryVars>>

InitScheduler ==
    /\ sources = NoSources
    /\ result = None
    /\ previous = None
    /\ runs = 0
    /\ StagesIdle
    /\ DossierIdle
    /\ OverdueIdle
    /\ clock = Now
    /\ BreakerIdle
    /\ ProfileIdle
    /\ RetryIdle
    /\ jobs = <<>>
    /\ isRunning = FALSE
    /\ stats = [ totalJobs |-> 0, runningJobs |-> 0, successfulRuns |-> 0, failedRuns |-> 0 ]
    /\ runOnInit \in BOOLEAN
    /\ executions = <<>>

CanExecute == Len(executions) < MaxExecutions

RegisterJob ==
    /\ runOnInit => CanExecute
    /\ \E config \in JobConfigs :
          SchedulerBecomes(registerJob(TheScheduler, config, runOnInit))

UnregisterJob ==
    \E id \in JobIds :
        /\ HasJob(jobs, id)
        /\ SchedulerBecomes(unregisterJob(TheScheduler, id))

StartScheduler ==
    /\ ~isRunning
    /\ SchedulerBecomes([TheScheduler EXCEPT
                             !.isRunning = TRUE,
                             !.jobs = [i \in DOMAIN jobs |-> [jobs[i] EXCEPT !.started = TRUE]]])

StopScheduler ==
    /\ isRunning
    /\ SchedulerBecomes([TheScheduler EXCEPT
                             !.isRunning = FALSE,
                             !.jobs = [i \in DOMAIN jobs |-> [jobs[i] EXCEPT !.started = FALSE]]])

\* The schedule of a started task fires
CronTick ==
    /\ CanExecute
    /\ \E i \in DOMAIN jobs :
          /\ jobs[i].started
          /\ SchedulerBecomes(executeJob(TheScheduler, jobs[i].config))

\* runJob: task.now() fires the task whether it is started or not
RunJob ==
    /\ CanExecute
    /\ \E i \in DOMAIN jobs : SchedulerBecomes(executeJob(TheScheduler, jobs[i].config))

HandlerResolves ==
    \E e \in DOMAIN executions :
        /\ executions[e].phase = "running"
        /\ SchedulerBecomes(afterResolve(TheScheduler, e))

HandlerRejects ==
    \E e \in DOMAIN executions :
        /\ executions[e].phase = "running"
        /\ SchedulerBecomes(afterThrow(TheScheduler, e))

NextScheduler ==
    \/ RegisterJob
    \/ UnregisterJob
    \/ StartScheduler
    \/ StopScheduler
    \/ CronTick
    \/ RunJob
    \/ HandlerResolves
    \/ HandlerRejects

SpecScheduler == InitScheduler /\ [][NextScheduler]_vars

InFlight(execs) == Cardinality({e \in DOMAIN execs : execs[e].phase = "running"})
Finished(execs) == Cardinality({e \in DOMAIN execs : execs[e].phase = "done"})

\* C30: under every interleaving stats.runningJobs is never negative and is
\* the number of handlers in flight (0 when all have settled), and every
\* finished execution is counted exactly once: successfulRuns + failedRuns
\* is the number of finished executions.
C30_StatsMatchExecutions ==
    /\ stats.runningJobs >= 0
    /\ stats.runningJobs = InFlight(executions)
    /\ stats.successfulRuns + stats.failedRuns = Finished(executions)

====
